---- MODULE Spec2Model ----
(***************************************************************************)
(* A model of FSB_BANK_Extractor_CPP.cpp: the FSB5 signature scanner, the  *)
(* extraction of the sub-containers of a bank file, the processing of one  *)
(* sub-sound into a WAV file, and main's loops over containers and         *)
(* sub-sounds.  Byte values are the integers 0..255; a file is a sequence  *)
(* of bytes; a std::ifstream is its get position with its eofbit and       *)
(* failbit.                                                                *)
(***************************************************************************)
EXTENDS Integers, Sequences, FiniteSets, TLC

VARIABLES
    pc,             \* the position of the program
    bank,           \* the bytes of the outer container (bankFileStream's file)
    reader,         \* bankFileStream: [pos, eof, fail]
    startPos,       \* the get position FindFSB5Signature was entered with
    found,          \* FindFSB5Signature's return value
    fsbCount,       \* ExtractFSBsFromBankFile's fsbCount
    tempFsbFiles,   \* ExtractFSBsFromBankFile's result list (file names)
    tempDir,        \* the temporary directory: file name -> bytes, for the files in it
    extLog,         \* history: one record per iteration of the extraction loop
    faults,         \* how many more environment failures this run may meet
    snd,            \* the engine's sub-sound behind the handle subSound
    soundInfo,      \* ProcessSubSound's soundInfo
    wavFile,        \* ProcessSubSound's wavFile: [open, bad, path]
    outFiles,       \* the output tree: <<directory, file name>> -> [hdr, data]
    totalBytesRead, \* the transcriber's totalBytesRead
    chunkCount,     \* ProcessSubSound's chunkCount
    subLog,         \* history: the steps of the current ProcessSubSound call
    inputIsBank,    \* whether the input path ends in ".bank"
    filesToProcess, \* main's filesToProcess
    tempFilesToDelete, \* main's tempFilesToDelete
    fileIdx,        \* the position of main's loop in filesToProcess (from 1)
    numSubSounds,   \* main's numSubSounds
    subIdx,         \* main's i, the index of the sub-sound
    allSubSoundsProcessed, \* main's flag of the current container
    outputDirectory, \* main's outputDirectory of the current container
    outDirs,        \* the output directories that exist
    held,           \* how many sub-sound handles are held
    exitCode,       \* the value main returned (-1: still running)
    mainLog,        \* history: what main did, in order
    argv,           \* the command line after the program's name (once the options
                    \* are accepted: the input path alone)
    verboseLogEnabled, \* main's verboseLogEnabled
    logFile,        \* main's logFile: whether open, its failbit, its path
    logFiles,       \* the log files on disk: path |-> the records written
    call,           \* a function called on its own, with its arguments
    ret,            \* what that call returned
    session         \* which run of the program this is (1 or 2), the command
                    \* line it was started with, and what the run before left

scanVars == <<startPos, found>>
extRest == <<fsbCount, tempFsbFiles, tempDir, extLog>>
extVars == <<bank, reader, extRest>>
subVars == <<snd, soundInfo, wavFile, outFiles, totalBytesRead, chunkCount, subLog>>
mainVars == <<inputIsBank, filesToProcess, tempFilesToDelete, fileIdx, numSubSounds,
              subIdx, allSubSoundsProcessed, outputDirectory, outDirs, held, exitCode,
              mainLog>>
logVars == <<verboseLogEnabled, logFile, logFiles>>
callVars == <<call, ret>>
vars == <<pc, faults, scanVars, extVars, subVars, mainVars, argv, logVars, callVars, session>>

\* ------------------------------------------------------------------ bounds

\* The longest byte stream handed to the scanner on its own.
MaxScanLen == 6

\* The most sub-containers laid out in a generated bank file.
MaxSubs == 2

\* The most environment failures (I/O, allocation, engine errors) in one run.
MaxFaults == 1

\* The most iterations of the extraction loop that are followed.
MaxFsbCount == 4

\* ------------------------------------------------------------ byte streams

\* "FSB5" as bytes.
FSB5 == <<70, 83, 66, 53>>

\* The byte values the scanner's inputs are drawn from: the four bytes of the
\* signature and one byte outside it.
ScanBytes == {70, 83, 66, 53, 0}

\* std::char_traits<char>::eof().
EOF == -1

\* A freshly opened std::ifstream.
OpenReader == [pos |-> 0, eof |-> FALSE, fail |-> FALSE]

\* basic_ios::good().
Good(r) == ~r.eof /\ ~r.fail

\* istream::tellg(): pos_type(-1) when fail().
Tellg(r) == IF r.fail THEN -1 ELSE r.pos

\* istream::peek(): an unformatted input function; its sentry sets failbit on a
\* stream that is not good(), and the end of the file sets eofbit.
Peek(r, data) ==
    IF ~Good(r) THEN [c |-> EOF, r |-> [r EXCEPT !.fail = TRUE]]
    ELSE IF r.pos >= Len(data) THEN [c |-> EOF, r |-> [r EXCEPT !.eof = TRUE]]
    ELSE [c |-> data[r.pos + 1], r |-> r]

\* istream::read(s, n): extracts n bytes, or the bytes left with eofbit and
\* failbit set; on a stream that is not good() it extracts nothing.
Read(r, data, n) ==
    IF ~Good(r) THEN [bytes |-> << >>, gcount |-> 0, r |-> [r EXCEPT !.fail = TRUE]]
    ELSE IF r.pos + n <= Len(data)
    THEN [bytes |-> SubSeq(data, r.pos + 1, r.pos + n), gcount |-> n,
          r |-> [r EXCEPT !.pos = r.pos + n]]
    ELSE [bytes |-> SubSeq(data, r.pos + 1, Len(data)), gcount |-> Len(data) - r.pos,
          r |-> [pos |-> Len(data), eof |-> TRUE, fail |-> TRUE]]

\* istream::seekg(off, std::ios::cur): clears eofbit first, and seeks only
\* when fail() is false.
SeekCur(r, off) ==
    IF r.fail THEN [r EXCEPT !.eof = FALSE]
    ELSE IF r.pos + off < 0 THEN [r EXCEPT !.eof = FALSE, !.fail = TRUE]
    ELSE [r EXCEPT !.eof = FALSE, !.pos = r.pos + off]

\* istream::seekg(pos): clears eofbit first, and seeks only when fail() is false.
SeekPos(r, p) ==
    IF r.fail THEN [r EXCEPT !.eof = FALSE]
    ELSE IF p < 0 THEN [r EXCEPT !.eof = FALSE, !.fail = TRUE]
    ELSE [r EXCEPT !.eof = FALSE, !.pos = p]

\* -------------------------------------------------------- FindFSB5Signature

\* A scanner that forgets to step back after a mismatch (a stride of 4).
Rewind3_Stride4(r) == r

\* reader.seekg(-3, std::ios::cur) after a mismatch: the next candidate starts
\* one byte after the last one.
Rewind3(r) == SeekCur(r, -3)

\* reader.seekg(-4, std::ios::cur) on a match.
RewindToSignature(r) == SeekCur(r, -4)

\* The while loop of FindFSB5Signature, from stream state r.
RECURSIVE ScanLoop(_, _)
ScanLoop(r, data) ==
    LET pk == Peek(r, data) IN
    IF pk.c = EOF THEN [found |-> FALSE, r |-> pk.r]
    ELSE LET rd == Read(pk.r, data, 4) IN
         IF rd.gcount = 4
         THEN IF rd.bytes = FSB5
              THEN [found |-> TRUE, r |-> RewindToSignature(rd.r)]
              ELSE ScanLoop(Rewind3(rd.r), data)
         ELSE [found |-> FALSE, r |-> rd.r]

\* FindFSB5Signature(reader): the result and the stream it leaves.
FindFSB5Signature(r, data) ==
    LET startPosition == Tellg(r)
        res == ScanLoop(r, data)
    IN  IF res.found THEN res
        ELSE [found |-> FALSE, r |-> SeekPos(res.r, startPosition)]

\* ------------------------------------------------------------ file names

\* A file name is a sequence of characters (one-character strings) that ends
\* with its extension as one element: "s_2.fsb" is <<"s", "_", "2", ".fsb">>.
\* path.stem(): the name without its extension.
Stem(name) == SubSeq(name, 1, Len(name) - 1)

\* The decimal digits, as characters.
Digits == <<"0", "1", "2", "3", "4", "5", "6", "7", "8", "9">>

\* std::to_string(n) for n >= 0, as characters.
RECURSIVE to_string(_)
to_string(n) ==
    IF n < 10 THEN <<Digits[n + 1]>>
    ELSE to_string(n \div 10) \o <<Digits[(n % 10) + 1]>>

\* The bank file given on the command line: "s.bank".
BankFileName == <<"s", ".bank">>

\* A directory with no file in it.
EmptyDir == [n \in {} |-> 0]

\* The directory d with file name holding bytes.
WithFile(d, name, bytes) ==
    [n \in DOMAIN d \cup {name} |-> IF n = name THEN bytes ELSE d[n]]

\* std::filesystem::remove(name) in directory d.
WithoutFile(d, name) == [n \in DOMAIN d \ {name} |-> d[n]]

\* -------------------------------------------------- ExtractFSBsFromBankFile

\* The fixed size of an FSB5 header, 0x3C.
FSB_HEADER_SIZE == 60

\* The bytes the six header reads consume: the signature and five 32-bit fields.
FSB_FIELDS_SIZE == 24

\* A uint32_t is the record of its two 16-bit halves, [hi, lo]: its value is
\* hi * 65536 + lo.  The uint32_t of a natural number below 2^31:
U32(n) == [hi |-> n \div 65536, lo |-> n % 65536]

\* Whether a uint32_t is below 2^31, and its value when it is.
Fits(u) == u.hi < 32768
NatOf(u) == u.hi * 65536 + u.lo

\* uint32_t addition: modulo 2^32.
U32Add(a, b) ==
    [hi |-> (a.hi + b.hi + ((a.lo + b.lo) \div 65536)) % 65536,
     lo |-> (a.lo + b.lo) % 65536]

\* u - k for a natural number k <= u, k below 65536.
U32SubNat(u, k) ==
    IF u.lo >= k THEN [u EXCEPT !.lo = u.lo - k]
    ELSE [hi |-> u.hi - 1, lo |-> u.lo + 65536 - k]

\* A little-endian uint32_t read from 4 bytes.
DecodeLE32(b) == [hi |-> b[3] + 256 * b[4], lo |-> b[1] + 256 * b[2]]

\* The values an uninitialized uint32_t that no read has filled may hold (a
\* sample of them).
IndetValues == {U32(0), U32(7)}

\* The values a header field has after reading it: what its 4 bytes decode to,
\* or an indeterminate value when the read fell short.
FieldValues(rd) == IF rd.gcount = 4 THEN {DecodeLE32(rd.bytes)} ELSE IndetValues

\* A name rule that numbers the first sub-container too.
TempFileName_AlwaysNumbered(count) == Stem(BankFileName) \o <<"_">> \o to_string(count) \o <<".fsb">>

\* The temporary file's name for the fsbCount-th signature: "<stem>.fsb" for the
\* first, "<stem>_<n>.fsb" after it.
TempFileName(count) ==
    IF count > 1 THEN Stem(BankFileName) \o <<"_">> \o to_string(count) \o <<".fsb">>
    ELSE Stem(BankFileName) \o <<".fsb">>

\* The six reads of the header, from stream state r: the stream they leave and
\* the read results of shdrSize, nameSize and dataSize.
ReadHeader(r, data) ==
    LET sign == Read(r, data, 4)
        version == Read(sign.r, data, 4)
        numSamples == Read(version.r, data, 4)
        shdrSize == Read(numSamples.r, data, 4)
        nameSize == Read(shdrSize.r, data, 4)
        dataSize == Read(nameSize.r, data, 4)
    IN  [r |-> dataSize.r, shdrSize |-> shdrSize, nameSize |-> nameSize,
         dataSize |-> dataSize]

\* uint32_t fsbFileSize = 0x3C + shdrSize + nameSize + dataSize.
FsbFileSize(shdrSize, nameSize, dataSize) ==
    U32Add(U32Add(U32Add(U32(FSB_HEADER_SIZE), shdrSize), nameSize), dataSize)

\* bankFileStream.read(fsbData.data(), fsbFileSize): a count of 2^31 or more
\* is more than any bank file of the model holds, as is the file's length + 1.
ReadU32(r, data, count) ==
    Read(r, data, IF Fits(count) THEN NatOf(count) ELSE Len(data) + 1)

\* A temporary file's content: the bytes copied from the bank file, followed
\* by pad zero bytes (the value-initialized elements of std::vector<char> that
\* no read has filled).
FileContent(bytes, pad) == [bytes |-> bytes, pad |-> pad]

\* The bank file cannot be opened: the empty list is returned.
ExtOpenFail ==
    /\ pc = "ext_open"
    /\ faults > 0
    /\ faults' = faults - 1
    /\ pc' = "ext_ret"
    /\ UNCHANGED <<scanVars, extVars, subVars, mainVars, argv, logVars, callVars, session>>

\* The bank file is opened: the loop starts at offset 0 with fsbCount = 0.
ExtOpen ==
    /\ pc = "ext_open"
    /\ reader' = OpenReader
    /\ fsbCount' = 0
    /\ pc' = "ext_scan"
    /\ UNCHANGED <<faults, scanVars, bank, tempFsbFiles, tempDir, extLog, subVars, mainVars, argv, logVars, callVars, session>>

\* The loop condition: while (FindFSB5Signature(bankFileStream)).
ExtScan ==
    /\ pc = "ext_scan"
    /\ LET res == FindFSB5Signature(reader, bank) IN
        /\ reader' = res.r
        /\ pc' = IF res.found THEN "ext_body" ELSE "ext_ret"
    /\ UNCHANGED <<faults, scanVars, bank, extRest, subVars, mainVars, argv, logVars, callVars, session>>

\* An iteration whose temporary file cannot be created: the name is taken off
\* the list again and the loop continues.
ExtBodyNoCreate ==
    /\ pc = "ext_body"
    /\ fsbCount < MaxFsbCount
    /\ faults > 0
    /\ faults' = faults - 1
    /\ fsbCount' = fsbCount + 1
    /\ extLog' = Append(extLog, [sig |-> reader.pos, n |-> fsbCount + 1,
                                 name |-> TempFileName(fsbCount + 1),
                                 outcome |-> "nocreate", size |-> U32(0)])
    /\ pc' = "ext_scan"
    /\ UNCHANGED <<scanVars, bank, reader, tempFsbFiles, tempDir, subVars, mainVars, argv, logVars, callVars, session>>

\* An iteration in which std::vector<char> fsbData(fsbFileSize) throws: the
\* handler takes the name off the list and removes the file.
ExtBodyThrow ==
    /\ pc = "ext_body"
    /\ fsbCount < MaxFsbCount
    /\ faults > 0
    /\ faults' = faults - 1
    /\ LET h == ReadHeader(reader, bank) IN
        \E shdrSize \in FieldValues(h.shdrSize), nameSize \in FieldValues(h.nameSize),
           dataSize \in FieldValues(h.dataSize) :
            /\ reader' = SeekCur(h.r, -FSB_FIELDS_SIZE)
            /\ extLog' = Append(extLog, [sig |-> reader.pos, n |-> fsbCount + 1,
                                         name |-> TempFileName(fsbCount + 1),
                                         outcome |-> "throw",
                                         size |-> FsbFileSize(shdrSize, nameSize, dataSize)])
    /\ fsbCount' = fsbCount + 1
    /\ tempDir' = WithoutFile(tempDir, TempFileName(fsbCount + 1))
    /\ pc' = "ext_scan"
    /\ UNCHANGED <<scanVars, bank, tempFsbFiles, subVars, mainVars, argv, logVars, callVars, session>>

\* An iteration that runs to its end: the header is read, fsbFileSize bytes are
\* read from the signature on into a zero-filled buffer, and the whole buffer
\* is written to the temporary file (written = TRUE) or the write fails part
\* of the way, here after half of the bytes read (written = FALSE); neither
\* stream is tested afterwards.
ExtBodyMaterialize(written) ==
    /\ pc = "ext_body"
    /\ fsbCount < MaxFsbCount
    /\ LET h == ReadHeader(reader, bank)
           name == TempFileName(fsbCount + 1)
       IN \E shdrSize \in FieldValues(h.shdrSize), nameSize \in FieldValues(h.nameSize),
             dataSize \in FieldValues(h.dataSize) :
            LET fsbFileSize == FsbFileSize(shdrSize, nameSize, dataSize)
                rd == ReadU32(SeekCur(h.r, -FSB_FIELDS_SIZE), bank, fsbFileSize)
                fsbData == FileContent(rd.bytes, U32SubNat(fsbFileSize, rd.gcount))
            IN  /\ reader' = rd.r
                /\ IF written
                   THEN tempDir' = WithFile(tempDir, name, fsbData)
                   ELSE tempDir' = WithFile(tempDir, name,
                            FileContent(SubSeq(rd.bytes, 1, rd.gcount \div 2), U32(0)))
                /\ extLog' = Append(extLog, [sig |-> reader.pos, n |-> fsbCount + 1,
                                             name |-> name,
                                             outcome |-> IF ~written THEN "shortwrite"
                                                         ELSE IF U32(rd.gcount) # fsbFileSize
                                                         THEN "shortread" ELSE "ok",
                                             size |-> fsbFileSize])
                /\ tempFsbFiles' = Append(tempFsbFiles, name)
    /\ fsbCount' = fsbCount + 1
    /\ pc' = "ext_scan"
    /\ UNCHANGED <<scanVars, bank, subVars, mainVars, argv, logVars, callVars, session>>

ExtBodyOk ==
    /\ ExtBodyMaterialize(TRUE)
    /\ UNCHANGED faults

ExtBodyShortWrite ==
    /\ faults > 0
    /\ faults' = faults - 1
    /\ ExtBodyMaterialize(FALSE)

\* ------------------------------------------------------- SanitizeFileName

\* charMap: the unsafe characters and the strings that replace them (the
\* replacement strings' bytes as the source file holds them).
CharMap ==
    ("<" :> <<"xCB", "x87", "xC2", "xB4">>) @@ (">" :> <<"xCB", "x87", "xC2", "xB5">>) @@
    (":" :> <<"xC5", "x81", "xC5", "x9F">>) @@ ("\"" :> <<"xC5", "x81", "xCB", "x98">>) @@
    ("/" :> <<"xC5", "x81", "xC5", "xBB">>) @@ ("\\" :> <<"xC5", "x81", "xC3", "x9C">>) @@
    ("|" :> <<"xC5", "x81", "xC3", "xBC">>) @@ ("?" :> <<"xC5", "x81", "xC5", "xBC">>) @@
    ("*" :> <<"xC5", "x81", "xC5", "x9E">>)

\* The loop of SanitizeFileName from index i (from 1) of the working copy.
RECURSIVE SanitizeFrom(_, _)
SanitizeFrom(sanitized, i) ==
    IF i > Len(sanitized) THEN sanitized
    ELSE IF sanitized[i] \in DOMAIN CharMap
    THEN SanitizeFrom(SubSeq(sanitized, 1, i - 1) \o CharMap[sanitized[i]]
                        \o SubSeq(sanitized, i + 1, Len(sanitized)),
                      i + Len(CharMap[sanitized[i]]))
    ELSE SanitizeFrom(sanitized, i + 1)

\* SanitizeFileName that looks at the first character only.
SanitizeFileName_FirstOnly(fileName) ==
    IF Len(fileName) > 0 /\ fileName[1] \in DOMAIN CharMap
    THEN CharMap[fileName[1]] \o SubSeq(fileName, 2, Len(fileName))
    ELSE fileName

SanitizeFileName(fileName) == SanitizeFrom(fileName, 1)

\* ----------------------------------------------------------- WriteWAVHeader

\* Constants::CHUNK_SIZE.
CHUNK_SIZE == 4096

\* Constants::BITS_IN_BYTE.
BITS_IN_BYTE == 8

\* Constants::FORMAT_PCM and Constants::FORMAT_PCM_FLOAT.
FORMAT_PCM == 1
FORMAT_PCM_FLOAT == 3

\* The sample rate when getDefaults reports no positive frequency.
DEFAULT_SAMPLE_RATE == 44100

\* sampleRate * channels * bitsPerSample / BITS_IN_BYTE as the 64-bit value the
\* code computes, in 16-bit limbs (top above bit 31): the product first, one
\* division after it. sampleRate is an int, channels * bitsPerSample at most
\* 1024.
ByteRate64(sampleRate, channels, bitsPerSample) ==
    LET m == channels * bitsPerSample
        low == (sampleRate % 65536) * m
        high == (sampleRate \div 65536) * m + (low \div 65536)
        upper == high \div BITS_IN_BYTE
    IN  [top |-> upper \div 65536,
         hi |-> upper % 65536,
         lo |-> (high % BITS_IN_BYTE) * (65536 \div BITS_IN_BYTE)
                    + ((low % 65536) \div BITS_IN_BYTE)]

\* static_cast<uint32_t> of a 64-bit value: its low 32 bits.
Low32(w) == [hi |-> w.hi, lo |-> w.lo]

\* The fields WriteWAVHeader writes between the "RIFF", "WAVE", "fmt " and
\* "data" tags. dataSize is the uint32_t the caller passes, widened to size_t;
\* 36 + dataSize and dataSize are cast back to uint32_t.
WavHeader(sampleRate, channels, dataSize, bitsPerSample, format) ==
    [riffSize |-> U32Add(U32(36), dataSize),
     fmtSize |-> 16,
     formatCode |-> IF format = "PCMFLOAT" THEN FORMAT_PCM_FLOAT ELSE FORMAT_PCM,
     channels |-> channels % 65536,
     sampleRate |-> sampleRate,
     byteRate |-> Low32(ByteRate64(sampleRate, channels, bitsPerSample)),
     blockAlign |-> ((channels * bitsPerSample) \div BITS_IN_BYTE) % 65536,
     bitsPerSample |-> bitsPerSample % 65536,
     dataSize |-> dataSize]

\* An output file that holds no header.
NoHeader == [riffSize |-> U32(0), fmtSize |-> 0, formatCode |-> 0, channels |-> 0,
             sampleRate |-> 0, byteRate |-> U32(0), blockAlign |-> 0, bitsPerSample |-> 0,
             dataSize |-> U32(0)]

\* WriteWAVHeader(file, ...): false when the stream is not open; otherwise the
\* writes are issued and true is returned. The stream's exception mask is
\* empty, so writes the stream does not accept (accepts = FALSE) throw nothing:
\* badbit is set, no byte reaches the file and the catch blocks are never
\* entered.
WriteWAVHeader(file, accepts, sampleRate, channels, dataSize, bitsPerSample, format) ==
    IF ~file.open
    THEN [ok |-> FALSE, file |-> file, hdr |-> NoHeader]
    ELSE IF accepts /\ ~file.bad
         THEN [ok |-> TRUE, file |-> file,
               hdr |-> WavHeader(sampleRate, channels, dataSize, bitsPerSample, format)]
         ELSE [ok |-> TRUE, file |-> [file EXCEPT !.bad = TRUE], hdr |-> NoHeader]

\* ----------------------------------------------------------- the engine side

\* No sub-sound is being processed.
NoSound == [format |-> "NONE", channels |-> 0, bits |-> 0, freq10 |-> 0,
            lengthBytes |-> 0, name |-> << >>]
NoInfo == [format |-> "NONE", sampleRate |-> 0, bitsPerSample |-> 0, channels |-> 0,
           soundLengthBytes |-> 0, subSoundName |-> << >>]
ClosedFile == [open |-> FALSE, bad |-> FALSE, path |-> << >>]

\* A float: a number in units of 1.0, or a NaN.
Float(v) == [nan |-> FALSE, v |-> v]
NaN == [nan |-> TRUE, v |-> 0]

\* operator< on floats: false whenever an operand is a NaN.
FloatLess(a, b) == ~a.nan /\ ~b.nan /\ a.v < b.v

\* Float sample i of a PCMFLOAT sub-sound, whose bytes the engine hands over
\* as the file holds them: the samples run through -2, -1, 0, 1, 2 and a NaN.
FloatSample(i) == IF i % 6 = 5 THEN NaN ELSE Float((i % 6) - 2)

\* The byte at offset k of sub-sound sound as the engine delivers it: its
\* offset, and for a PCMFLOAT sub-sound the value of the float it is part of.
EngineByte(sound, k) ==
    <<k, IF sound.format = "PCMFLOAT" THEN FloatSample(k \div 4) ELSE Float(0)>>

\* The byte counts readData may report with FMOD_OK for a request of
\* bytesToRead bytes: all of them, a part of them, or none.
EngineDelivers(bytesToRead) == {0, bytesToRead \div 2, bytesToRead}

\* The buffer after readData delivered bytesRead bytes from offset.
ReadData(sound, offset, bytesRead) ==
    [j \in 1..bytesRead |-> EngineByte(sound, offset + j - 1)]

\* ------------------------------------------------------------- GetSoundInfo

\* info.sampleRate = (defaultFrequency > 0) ? static_cast<int>(defaultFrequency)
\* : 44100, for a frequency given in tenths of a Hz.
SampleRate(freq10) ==
    IF freq10 > 0 THEN freq10 \div 10 ELSE DEFAULT_SAMPLE_RATE

\* The SoundInfo GetSoundInfo returns when none of its fatal queries fails.
GetSoundInfo(sound) ==
    [format |-> sound.format,
     sampleRate |-> SampleRate(sound.freq10),
     bitsPerSample |-> sound.bits,
     channels |-> sound.channels,
     soundLengthBytes |-> sound.lengthBytes,
     subSoundName |-> sound.name]

\* ------------------------------------------------------------ transcribers

\* WritePCM24DataChunk's inner loop on one chunk: for i = 0, 3, 6, ... below
\* bytesRead, the bytes i, i+1, i+2 are written when i + 2 < bytesRead.
PCM24Chunk(buffer) ==
    LET bytesRead == Len(buffer)
        starts == {i \in 0..(bytesRead - 1) : i % 3 = 0 /\ i + 2 < bytesRead}
    IN  [j \in 1..(3 * Cardinality(starts)) |->
            buffer[3 * ((j - 1) \div 3) + ((j - 1) % 3) + 1]]

\* std::clamp(v, -1.0f, 1.0f): (v < lo) ? lo : (hi < v) ? hi : v. Both
\* comparisons are false for a NaN, which is what the library returns then.
Clamp(v) ==
    IF FloatLess(v, Float(-1)) THEN Float(-1)
    ELSE IF FloatLess(Float(1), v) THEN Float(1)
    ELSE v

\* WritePCMFloatDataChunk on one chunk: the bytesRead / sizeof(float) complete
\* floats of the buffer are clamped, and bytesRead bytes are written.
FloatChunk(buffer) ==
    [j \in 1..Len(buffer) |->
        IF (j - 1) \div 4 < Len(buffer) \div 4
        THEN <<buffer[j][1], Clamp(buffer[j][2])>>
        ELSE buffer[j]]

\* A write of the buffer that leaves out its last byte.
RawChunk_DropLast(buffer) == SubSeq(buffer, 1, Len(buffer) - 1)

\* WriteAudioDataChunk<BufferType> on one chunk: bytesRead bytes of the buffer
\* are written as they are.
RawChunk(buffer) == buffer

\* The switch of ProcessSubSound: what the transcriber of the format writes for
\* one chunk.
ChunkOutput(format, buffer) ==
    CASE format = "PCM24" -> PCM24Chunk(buffer)
      [] format = "PCMFLOAT" -> FloatChunk(buffer)
      [] OTHER -> RawChunk(buffer)

\* A transcriber that asks for a whole chunk whatever is left of the sound.
BytesToRead_WholeChunk(soundLengthBytes, total) == CHUNK_SIZE

\* std::min<unsigned int>(CHUNK_SIZE, soundLengthBytes - totalBytesRead).
BytesToRead(soundLengthBytes, total) ==
    IF CHUNK_SIZE < soundLengthBytes - total THEN CHUNK_SIZE
    ELSE soundLengthBytes - total

\* ---------------------------------------------------------- ProcessSubSound

\* outputFileName: the sanitized name of the sub-sound, or of
\* "<baseFileName>_<subSoundIndex>" when it has none.
OutputFileName(info, baseFileName, subSoundIndex) ==
    IF Len(info.subSoundName) > 0 THEN SanitizeFileName(info.subSoundName)
    ELSE SanitizeFileName(baseFileName \o <<"_">> \o to_string(subSoundIndex))

\* fullOutputPath: the output directory and "<outputFileName>.wav".
FullOutputPath(info, baseFileName, subSoundIndex, dir) ==
    <<dir, OutputFileName(info, baseFileName, subSoundIndex) \o <<".wav">> >>

\* The name of the container main is processing, and its stem.
CurrentFile == filesToProcess[fileIdx]
BaseFileName == Stem(CurrentFile)

\* ofstream::write on the output file: nothing is written once badbit is set.
WavAppend(files, f, bytes) ==
    IF f.bad THEN files
    ELSE [files EXCEPT ![f.path].data = @ \o bytes]

\* WriteLogMessage(logFile, ...): the record is written when the stream is
\* open and logging is enabled; a stream whose failbit is set takes nothing.
WriteLogMessage(files, stream, enabled, record) ==
    IF stream.open /\ enabled /\ ~stream.fail
    THEN [files EXCEPT ![stream.path] = Append(@, record)]
    ELSE files

\* A log record: the container and sub-sound it is about (sub is -1 for
\* main's own records) and the step it reports.
LogRecord(file, sub, step) == [file |-> file, sub |-> sub, step |-> step]

\* A step of ProcessSubSound that calls WriteLogMessage: the step is noted and
\* its records go to main's logFile.
SubStep(step) ==
    /\ subLog' = Append(subLog, step)
    /\ logFiles' = WriteLogMessage(logFiles, logFile, verboseLogEnabled,
                                   LogRecord(fileIdx, subIdx, step))
    /\ UNCHANGED <<verboseLogEnabled, logFile>>

\* ProcessSubSound leaves by an exception: wavFile, if open, is closed.
SubThrow(step) ==
    /\ pc' = "sub_threw"
    /\ wavFile' = ClosedFile
    /\ SubStep(step)

\* seekData(0) fails: CheckFMODResult throws.
SubSeekFail ==
    /\ pc = "sub_seek"
    /\ faults > 0
    /\ faults' = faults - 1
    /\ SubThrow("seekData failed")
    /\ UNCHANGED <<scanVars, extVars, mainVars, snd, soundInfo, outFiles,
                   totalBytesRead, chunkCount, argv, callVars, session>>

SubSeek ==
    /\ pc = "sub_seek"
    /\ pc' = "sub_info"
    /\ SubStep("seekData")
    /\ UNCHANGED <<faults, scanVars, extVars, mainVars, snd, soundInfo, wavFile,
                   outFiles, totalBytesRead, chunkCount, argv, callVars, session>>

\* A ProcessSubSound that opens its output file before it asks for the
\* sound's information.
SubInfoFail_FileFirst ==
    /\ pc = "sub_info"
    /\ faults > 0
    /\ faults' = faults - 1
    /\ outFiles' = WithFile(outFiles,
                        FullOutputPath(GetSoundInfo(snd), BaseFileName, subIdx,
                                       outputDirectory),
                        [hdr |-> NoHeader, data |-> << >>])
    /\ SubThrow("getFormat failed")
    /\ UNCHANGED <<scanVars, extVars, mainVars, snd, soundInfo,
                   totalBytesRead, chunkCount, argv, callVars, session>>

\* One of GetSoundInfo's fatal queries fails: CheckFMODResult throws.
SubInfoFail ==
    /\ pc = "sub_info"
    /\ faults > 0
    /\ faults' = faults - 1
    /\ \E query \in {"getFormat failed", "getDefaults failed",
                     "getLength (bytes) failed", "getLength (ms) failed"} :
        SubThrow(query)
    /\ UNCHANGED <<scanVars, extVars, mainVars, snd, soundInfo, outFiles,
                   totalBytesRead, chunkCount, argv, callVars, session>>

SubInfo ==
    /\ pc = "sub_info"
    /\ soundInfo' = GetSoundInfo(snd)
    /\ pc' = "sub_open"
    /\ SubStep("GetSoundInfo")
    /\ UNCHANGED <<faults, scanVars, extVars, mainVars, snd, wavFile, outFiles,
                   totalBytesRead, chunkCount, argv, callVars, session>>

\* The output file cannot be opened: std::runtime_error is thrown.
SubOpenFail ==
    /\ pc = "sub_open"
    /\ faults > 0
    /\ faults' = faults - 1
    /\ SubThrow("open failed")
    /\ UNCHANGED <<scanVars, extVars, mainVars, snd, soundInfo, outFiles,
                   totalBytesRead, chunkCount, argv, callVars, session>>

\* An output file opened without std::ios::trunc, to write behind what it holds.
SubOpen_Append ==
    /\ pc = "sub_open"
    /\ LET path == FullOutputPath(soundInfo, BaseFileName, subIdx, outputDirectory) IN
        /\ wavFile' = [open |-> TRUE, bad |-> FALSE, path |-> path]
        /\ outFiles' = IF path \in DOMAIN outFiles THEN outFiles
                       ELSE WithFile(outFiles, path, [hdr |-> NoHeader, data |-> << >>])
    /\ pc' = "sub_header"
    /\ SubStep("open")
    /\ UNCHANGED <<faults, scanVars, extVars, mainVars, snd, soundInfo,
                   totalBytesRead, chunkCount, argv, callVars, session>>

\* std::ofstream wavFile(fullOutputPath, binary | trunc): the file is created
\* or emptied.
SubOpen ==
    /\ pc = "sub_open"
    /\ LET path == FullOutputPath(soundInfo, BaseFileName, subIdx, outputDirectory) IN
        /\ wavFile' = [open |-> TRUE, bad |-> FALSE, path |-> path]
        /\ outFiles' = WithFile(outFiles, path, [hdr |-> NoHeader, data |-> << >>])
    /\ pc' = "sub_header"
    /\ SubStep("open")
    /\ UNCHANGED <<faults, scanVars, extVars, mainVars, snd, soundInfo,
                   totalBytesRead, chunkCount, argv, callVars, session>>

\* if (!WriteWAVHeader(wavFile, ...)) throw: the header call and what
\* ProcessSubSound does with its result.
SubHeaderStep(accepts) ==
    /\ pc = "sub_header"
    /\ LET res == WriteWAVHeader(wavFile, accepts, soundInfo.sampleRate,
                                 soundInfo.channels, U32(soundInfo.soundLengthBytes),
                                 soundInfo.bitsPerSample, soundInfo.format)
           step == IF accepts THEN "header" ELSE "header write failed"
       IN  IF res.ok
           THEN /\ wavFile' = res.file
                /\ outFiles' = [outFiles EXCEPT ![wavFile.path].hdr = res.hdr]
                /\ pc' = "sub_data"
                /\ SubStep(step)
           ELSE /\ SubThrow(step)
                /\ UNCHANGED outFiles
    /\ totalBytesRead' = 0
    /\ chunkCount' = 0
    /\ UNCHANGED <<scanVars, extVars, mainVars, snd, soundInfo, argv, callVars, session>>

\* The header call on a stream that accepts the 44 bytes.
SubHeader ==
    /\ SubHeaderStep(TRUE)
    /\ UNCHANGED faults

\* The header call on a stream whose writes fail.
SubHeaderWriteFail ==
    /\ faults > 0
    /\ faults' = faults - 1
    /\ SubHeaderStep(FALSE)

\* One iteration of the transcriber's while loop: readData succeeds with all
\* the bytes asked for (full = TRUE) or with fewer, and the chunk is written
\* (written = TRUE) or the write fails, which is not noticed.
SubChunkStep(written, full) ==
    /\ pc = "sub_data"
    /\ totalBytesRead < soundInfo.soundLengthBytes
    /\ \E bytesRead \in EngineDelivers(BytesToRead(soundInfo.soundLengthBytes,
                                                   totalBytesRead)) :
        /\ full <=> bytesRead = BytesToRead(soundInfo.soundLengthBytes, totalBytesRead)
        /\ outFiles' = IF written
                       THEN WavAppend(outFiles, wavFile,
                                ChunkOutput(soundInfo.format,
                                            ReadData(snd, totalBytesRead, bytesRead)))
                       ELSE outFiles
        /\ totalBytesRead' = totalBytesRead + bytesRead
    /\ chunkCount' = chunkCount + 1
    /\ UNCHANGED <<pc, scanVars, extVars, mainVars, snd, soundInfo, argv, logVars, callVars, session>>

SubChunk ==
    /\ SubChunkStep(TRUE, TRUE)
    /\ subLog' = Append(subLog, "chunk")
    /\ UNCHANGED <<faults, wavFile>>

\* readData reports FMOD_OK and fewer bytes than asked for.
SubChunkShort ==
    /\ faults > 0
    /\ faults' = faults - 1
    /\ SubChunkStep(TRUE, FALSE)
    /\ subLog' = Append(subLog, IF totalBytesRead' = totalBytesRead
                                 THEN "empty chunk" ELSE "short chunk")
    /\ UNCHANGED wavFile

SubChunkWriteFail ==
    /\ faults > 0
    /\ ~wavFile.bad
    /\ faults' = faults - 1
    /\ SubChunkStep(FALSE, TRUE)
    /\ wavFile' = [wavFile EXCEPT !.bad = TRUE]
    /\ subLog' = Append(subLog, "chunk write failed")

\* readData fails: the transcriber returns false and ProcessSubSound throws.
SubReadFail ==
    /\ pc = "sub_data"
    /\ totalBytesRead < soundInfo.soundLengthBytes
    /\ faults > 0
    /\ faults' = faults - 1
    /\ chunkCount' = chunkCount + 1
    /\ SubThrow("readData failed")
    /\ UNCHANGED <<scanVars, extVars, mainVars, snd, soundInfo, outFiles, totalBytesRead, argv, callVars, session>>

\* The loop ends, the transcriber returns true, "Status: Success" is printed
\* and ProcessSubSound returns; wavFile is closed.
SubDone ==
    /\ pc = "sub_data"
    /\ ~(totalBytesRead < soundInfo.soundLengthBytes)
    /\ pc' = "sub_ret"
    /\ wavFile' = ClosedFile
    /\ SubStep("success")
    /\ UNCHANGED <<faults, scanVars, extVars, mainVars, snd, soundInfo, outFiles,
                   totalBytesRead, chunkCount, argv, callVars, session>>

NextSub ==
    \/ SubSeekFail
    \/ SubSeek
    \/ SubInfoFail
    \/ SubInfo
    \/ SubOpenFail
    \/ SubOpen
    \/ SubHeader
    \/ SubHeaderWriteFail
    \/ SubChunk
    \/ SubChunkWriteFail
    \/ SubChunkShort
    \/ SubReadFail
    \/ SubDone

\* --------------------------------------------------------------------- main

\* The most sub-sounds the engine reports for one container.
MaxStreams == 2

\* The FSB file given on the command line when the input is no bank: "s.fsb".
FsbFileName == <<"s", ".fsb">>

\* The base output directory (outputDirectoryPath), as a directory name.
OutputRoot == << >>

\* An entry of mainLog: what was done (ev), to which container (file, its
\* position in filesToProcess) and sub-sound (sub), whether the program took it
\* to have succeeded (ok), whether something failed in it (fault), and for a
\* processed sub-sound its output path and byte length (and, added to the
\* entry, the steps of its ProcessSubSound call), for an opened container
\* with sub-sounds its output directory.
Event(ev, file, sub, ok, fault, path, len) ==
    [ev |-> ev, file |-> file, sub |-> sub, ok |-> ok, fault |-> fault,
     path |-> path, len |-> len]

\* The options of the command line, as names of one element.
HelpOptions == {<<"-h">>, <<"-help">>}
OutputOptions == {<<"-res">>, <<"-exe">>, <<"-o">>}

\* The files std::filesystem::exists finds: "s.fsb" and "s.bank".
ExistingFiles == {FsbFileName, BankFileName}

\* Whether the lowercased path ends in ".bank".
IsBankPath(path) == Len(path) > 0 /\ path[Len(path)] = ".bank"

\* The loop over argv[2..argc-1] from argument i on (a holds argv[1..argc-1],
\* so argv[i] is a[i]): st carries option_count, verboseLogEnabled,
\* help_option_used and the error the loop returned 1 for.
RECURSIVE ParseOptions(_, _, _)
ParseOptions(a, i, st) ==
    IF i > Len(a) THEN st
    ELSE IF a[i] \in {<<"-res">>, <<"-exe">>}
         THEN ParseOptions(a, i + 1, [st EXCEPT !.option_count = @ + 1])
    ELSE IF a[i] = <<"-o">>
         THEN IF i + 1 <= Len(a)
              THEN ParseOptions(a, i + 2, [st EXCEPT !.option_count = @ + 1])
              ELSE [st EXCEPT !.error = "-o requires a path"]
    ELSE IF a[i] = <<"-v">>
         THEN ParseOptions(a, i + 1, [st EXCEPT !.verbose = TRUE])
    ELSE IF a[i] \in HelpOptions
         THEN ParseOptions(a, i + 1, [st EXCEPT !.help = TRUE])
    ELSE [st EXCEPT !.error = "invalid option"]

\* AfterOptions without the check of option_count.
AfterOptions_AnyCount(st) ==
    IF st.error # "" THEN 1
    ELSE IF st.help THEN (IF st.option_count > 0 THEN 1 ELSE 0)
    ELSE -1

\* The checks after the loop: the value main returns there (-1: none, the run
\* goes on) for the loop's result st.
AfterOptions(st) ==
    IF st.error # "" THEN 1
    ELSE IF st.option_count > 1 /\ ~st.help THEN 1
    ELSE IF st.help THEN (IF st.option_count > 0 THEN 1 ELSE 0)
    ELSE -1

\* The value main returns before its try block (-1: none): no argument, the
\* help option alone, the help option among other arguments.
BeforeTry(a) ==
    IF Len(a) < 1 THEN 1
    ELSE IF Len(a) = 1 /\ a[1] \in HelpOptions THEN 0
    ELSE IF Len(a) > 1 /\ \E i \in 1..Len(a) : a[i] \in HelpOptions THEN 1
    ELSE -1

\* main returns from its argument handling: a message, and the exit status.
MainUsage ==
    /\ pc = "main_args"
    /\ BeforeTry(argv) # -1
    /\ exitCode' = BeforeTry(argv)
    /\ pc' = "exit"
    /\ mainLog' = Append(mainLog, Event("usage", 0, 0, BeforeTry(argv) = 0, FALSE, << >>, 0))
    /\ UNCHANGED <<faults, scanVars, extVars, subVars, inputIsBank, filesToProcess,
                   tempFilesToDelete, fileIdx, numSubSounds, subIdx,
                   allSubSoundsProcessed, outputDirectory, outDirs, held, argv,
                   logVars, callVars, session>>

\* The arguments pass the checks before the try block.
MainTry ==
    /\ pc = "main_args"
    /\ BeforeTry(argv) = -1
    /\ pc' = "main_engine"
    /\ UNCHANGED <<faults, scanVars, extVars, subVars, mainVars, argv, logVars, callVars, session>>

\* catch (const std::exception& e) of main: the error is printed and main
\* returns 1; the temporary directory is not touched.
CatchAndExit ==
    /\ pc' = "exit"
    /\ exitCode' = 1
    /\ tempDir' = tempDir

\* FMODSystem's constructor throws (the engine cannot be created or
\* initialized, or is too old).
MainEngineFail ==
    /\ pc = "main_engine"
    /\ faults > 0
    /\ faults' = faults - 1
    /\ CatchAndExit
    /\ mainLog' = Append(mainLog, Event("engine", 0, 0, FALSE, TRUE, << >>, 0))
    /\ UNCHANGED <<scanVars, bank, reader, fsbCount, tempFsbFiles, extLog, subVars,
                   inputIsBank, filesToProcess, tempFilesToDelete, fileIdx,
                   numSubSounds, subIdx, allSubSoundsProcessed, outputDirectory,
                   outDirs, held, argv, logVars, callVars, session>>

\* The engine is created; the input file does not exist, or the options are
\* rejected (or ask for help): main returns.
MainParseReturn ==
    /\ pc = "main_engine"
    /\ LET st == ParseOptions(argv, 2, [option_count |-> 0, verbose |-> FALSE,
                                        help |-> FALSE, error |-> ""])
           code == IF argv[1] \notin ExistingFiles THEN 1 ELSE AfterOptions(st)
       IN  /\ code # -1
           /\ exitCode' = code
           /\ mainLog' = Append(mainLog, Event("usage", 0, 0, code = 0, FALSE, << >>, 0))
    /\ pc' = "exit"
    /\ UNCHANGED <<faults, scanVars, extVars, subVars, inputIsBank, filesToProcess,
                   tempFilesToDelete, fileIdx, numSubSounds, subIdx,
                   allSubSoundsProcessed, outputDirectory, outDirs, held, argv,
                   logVars, callVars, session>>

\* The engine is created, the input file exists and the options are accepted:
\* they are taken into verboseLogEnabled and the kind of the input. Of argv
\* only the input path is read from here on, and only it is kept.
MainParse ==
    /\ pc = "main_engine"
    /\ argv[1] \in ExistingFiles
    /\ LET st == ParseOptions(argv, 2, [option_count |-> 0, verbose |-> FALSE,
                                        help |-> FALSE, error |-> ""])
       IN  /\ AfterOptions(st) = -1
           /\ verboseLogEnabled' = st.verbose
    /\ inputIsBank' = IsBankPath(argv[1])
    /\ argv' = <<argv[1]>>
    /\ pc' = "main_start"
    /\ UNCHANGED <<faults, scanVars, extVars, subVars, filesToProcess,
                   tempFilesToDelete, fileIdx, numSubSounds, subIdx,
                   allSubSoundsProcessed, outputDirectory, outDirs, held, exitCode,
                   mainLog, logFile, logFiles, callVars, session>>

\* The input is a bank file: ExtractFSBsFromBankFile is called.
MainSelectBank ==
    /\ pc = "main_start"
    /\ inputIsBank
    /\ pc' = "ext_open"
    /\ UNCHANGED <<faults, scanVars, extVars, subVars, mainVars, argv, logVars, callVars, session>>

\* The input is an FSB file: it is the one file to process.
MainSelectFsb ==
    /\ pc = "main_start"
    /\ ~inputIsBank
    /\ filesToProcess' = <<argv[1]>>
    /\ fileIdx' = 1
    /\ pc' = "main_loop"
    /\ UNCHANGED <<faults, scanVars, extVars, subVars, inputIsBank, tempFilesToDelete,
                   numSubSounds, subIdx, allSubSoundsProcessed, outputDirectory,
                   outDirs, held, exitCode, mainLog, argv, logVars, callVars, session>>

\* ExtractFSBsFromBankFile returned the empty list: main returns 0.
MainAfterExtractEmpty ==
    /\ pc = "ext_ret"
    /\ tempFsbFiles = << >>
    /\ pc' = "exit"
    /\ exitCode' = 0
    /\ mainLog' = Append(mainLog, Event("no FSB files", 0, 0, TRUE, FALSE, << >>, 0))
    /\ UNCHANGED <<faults, scanVars, extVars, subVars, inputIsBank, filesToProcess,
                   tempFilesToDelete, fileIdx, numSubSounds, subIdx,
                   allSubSoundsProcessed, outputDirectory, outDirs, held, argv,
                   logVars, callVars, session>>

\* A main that processes the extracted files from the last to the first.
MainAfterExtract_LastFirst ==
    /\ pc = "ext_ret"
    /\ tempFsbFiles # << >>
    /\ filesToProcess' = [k \in DOMAIN tempFsbFiles |->
                            tempFsbFiles[Len(tempFsbFiles) + 1 - k]]
    /\ tempFilesToDelete' = tempFilesToDelete \o tempFsbFiles
    /\ fileIdx' = 1
    /\ pc' = "main_loop"
    /\ UNCHANGED <<faults, scanVars, extVars, subVars, inputIsBank, numSubSounds,
                   subIdx, allSubSoundsProcessed, outputDirectory, outDirs, held,
                   exitCode, mainLog, argv, logVars, callVars, session>>

\* ExtractFSBsFromBankFile returned files: they are the files to process and
\* the files to delete.
MainAfterExtract ==
    /\ pc = "ext_ret"
    /\ tempFsbFiles # << >>
    /\ filesToProcess' = tempFsbFiles
    /\ tempFilesToDelete' = tempFilesToDelete \o tempFsbFiles
    /\ fileIdx' = 1
    /\ pc' = "main_loop"
    /\ UNCHANGED <<faults, scanVars, extVars, subVars, inputIsBank, numSubSounds,
                   subIdx, allSubSoundsProcessed, outputDirectory, outDirs, held,
                   exitCode, mainLog, argv, logVars, callVars, session>>

\* createSound or getNumSubSounds fails for the current container:
\* CheckFMODResult throws, and main's catch block ends the run.
MainOpenFail ==
    /\ pc = "main_loop"
    /\ fileIdx <= Len(filesToProcess)
    /\ faults > 0
    /\ faults' = faults - 1
    /\ CatchAndExit
    /\ mainLog' = Append(mainLog, Event("open", fileIdx, 0, FALSE, TRUE, << >>, 0))
    /\ UNCHANGED <<scanVars, bank, reader, fsbCount, tempFsbFiles, extLog, subVars,
                   inputIsBank, filesToProcess, tempFilesToDelete, fileIdx,
                   numSubSounds, subIdx, allSubSoundsProcessed, outputDirectory,
                   outDirs, held, argv, logVars, callVars, session>>

\* DirsAfterOpen without the test of the number of sub-sounds.
DirsAfterOpen_Always(dirs, n, dirFails, dir) ==
    IF ~dirFails THEN dirs \cup {dir} ELSE dirs

\* if (numSubSounds > 0) { create_directory(outputDirectory) ... }: the
\* directories that exist after a container with n sub-sounds has been opened.
DirsAfterOpen(dirs, n, dirFails, dir) ==
    IF n > 0 /\ ~dirFails THEN dirs \cup {dir} ELSE dirs

\* The current container holds no sub-sound: a message, and the next container.
MainOpenEmpty ==
    /\ pc = "main_loop"
    /\ fileIdx <= Len(filesToProcess)
    /\ numSubSounds' = 0
    /\ allSubSoundsProcessed' = TRUE
    /\ outDirs' = DirsAfterOpen(outDirs, 0, FALSE, Stem(CurrentFile))
    /\ mainLog' = Append(Append(mainLog,
                    Event("open", fileIdx, 0, TRUE, FALSE, << >>, 0)),
                    Event("no sub-sounds", fileIdx, 0, TRUE, FALSE, << >>, 0))
    /\ fileIdx' = fileIdx + 1
    /\ UNCHANGED <<pc, faults, scanVars, extVars, subVars, inputIsBank, filesToProcess,
                   tempFilesToDelete, subIdx, outputDirectory, held, exitCode, argv,
                   logVars, callVars, session>>

\* logFilePath: "_<stem>.log" in the output directory.
LogFilePath(dir, file) == <<dir, <<"_">> \o Stem(file) \o <<".log">> >>

\* if (verboseLogEnabled) { logFile.open(logFilePath, trunc); ... }: what
\* becomes of verboseLogEnabled, logFile and the log files. open on a stream
\* that is already open fails: failbit is set and the stream stays on its
\* file, so is_open() holds and the two records go to a failed stream. On a
\* closed stream the file is created, unless that fails (createFails), which
\* switches logging off.
OpenLog(enabled, stream, files, path, createFails, file) ==
    IF ~enabled
    THEN [enabled |-> enabled, stream |-> stream, files |-> files]
    ELSE IF stream.open
    THEN [enabled |-> TRUE, stream |-> [stream EXCEPT !.fail = TRUE], files |-> files]
    ELSE IF createFails
    THEN [enabled |-> FALSE, stream |-> [stream EXCEPT !.fail = TRUE], files |-> files]
    ELSE LET opened == [open |-> TRUE, fail |-> FALSE, path |-> path]
             first == WriteLogMessage(WithFile(files, path, << >>), opened, TRUE,
                                      LogRecord(file, -1, "Log file opened"))
         IN  [enabled |-> TRUE, stream |-> opened,
              files |-> WriteLogMessage(first, opened, TRUE,
                                        LogRecord(file, -1, "Processing FSB file"))]

\* The current container holds n > 0 sub-sounds: its output directory is
\* created (or the base directory is used when that fails), the log file is
\* opened when logging is enabled, and the loop over its sub-sounds starts.
MainOpen ==
    /\ pc = "main_loop"
    /\ fileIdx <= Len(filesToProcess)
    /\ \E n \in 1..MaxStreams :
        /\ numSubSounds' = n
        /\ \E dirFails \in {FALSE} \cup (IF faults > 0 THEN {TRUE} ELSE {}) :
            /\ outputDirectory' = IF dirFails THEN OutputRoot ELSE Stem(CurrentFile)
            /\ outDirs' = DirsAfterOpen(outDirs, n, dirFails, Stem(CurrentFile))
            /\ \E logFails \in {FALSE} \cup
                    (IF faults > (IF dirFails THEN 1 ELSE 0)
                            /\ verboseLogEnabled /\ ~logFile.open
                     THEN {TRUE} ELSE {}) :
                /\ faults' = faults - (IF dirFails THEN 1 ELSE 0)
                                     - (IF logFails THEN 1 ELSE 0)
                /\ LET log == OpenLog(verboseLogEnabled, logFile, logFiles,
                                      LogFilePath(outputDirectory', CurrentFile),
                                      logFails, fileIdx)
                   IN  /\ verboseLogEnabled' = log.enabled
                       /\ logFile' = log.stream
                       /\ logFiles' = log.files
    /\ allSubSoundsProcessed' = TRUE
    /\ subIdx' = 0
    /\ mainLog' = Append(mainLog,
                    Event("open", fileIdx, 0, TRUE, FALSE, outputDirectory', 0))
    /\ pc' = "sub_loop"
    /\ UNCHANGED <<scanVars, extVars, subVars, inputIsBank, filesToProcess,
                   tempFilesToDelete, fileIdx, held, exitCode, argv, callVars, session>>

\* The sub-sounds main's engine hands out at index i: one without a name,
\* and at index 0 also one whose name is what "s.fsb" gives its unnamed
\* sub-sound 1.
MainStreams(i) ==
    { [format |-> "PCM16", channels |-> 1, bits |-> 16, freq10 |-> 441000,
       lengthBytes |-> 2, name |-> << >>] }
    \cup (IF i = 0
          THEN { [format |-> "PCM24", channels |-> 2, bits |-> 24, freq10 |-> 0,
                  lengthBytes |-> 6, name |-> <<"s", "_", "1">>] }
          ELSE {})

\* getSubSound(i) fails: the flag is cleared and the loop continues.
MainGetSubSoundFail ==
    /\ pc = "sub_loop"
    /\ subIdx < numSubSounds
    /\ faults > 0
    /\ faults' = faults - 1
    /\ allSubSoundsProcessed' = FALSE
    /\ mainLog' = Append(mainLog,
                    Event("getSubSound", fileIdx, subIdx, FALSE, TRUE, << >>, 0))
    /\ subIdx' = subIdx + 1
    /\ UNCHANGED <<pc, scanVars, extVars, subVars, inputIsBank, filesToProcess,
                   tempFilesToDelete, fileIdx, numSubSounds, outputDirectory, outDirs,
                   held, exitCode, argv, logVars, callVars, session>>

\* getSubSound(i) succeeds: ProcessSubSound is called with the handle.
MainGetSubSound ==
    /\ pc = "sub_loop"
    /\ subIdx < numSubSounds
    /\ snd' \in MainStreams(subIdx)
    /\ subLog' = << >>
    /\ held' = held + 1
    /\ mainLog' = Append(mainLog,
                    Event("getSubSound", fileIdx, subIdx, TRUE, FALSE, << >>, 0))
    /\ pc' = "sub_seek"
    /\ UNCHANGED <<faults, scanVars, extVars, soundInfo, wavFile, outFiles,
                   totalBytesRead, chunkCount, inputIsBank, filesToProcess,
                   tempFilesToDelete, fileIdx, numSubSounds, subIdx,
                   allSubSoundsProcessed, outputDirectory, outDirs, exitCode, argv, logVars, callVars, session>>

\* Whether a write to the output file failed during the ProcessSubSound call.
WriteFailed(log) ==
    \E k \in DOMAIN log : log[k] \in {"header write failed", "chunk write failed"}

\* A sub-sound loop whose release is skipped when ProcessSubSound threw.
MainAfterSub_KeepOnThrow ==
    /\ pc \in {"sub_ret", "sub_threw"}
    /\ allSubSoundsProcessed' = IF pc = "sub_threw" THEN FALSE ELSE allSubSoundsProcessed
    /\ held' = IF pc = "sub_threw" THEN held ELSE held - 1
    /\ mainLog' = Append(mainLog,
                    Event("processed", fileIdx, subIdx, pc = "sub_ret",
                          pc = "sub_threw" \/ WriteFailed(subLog),
                          FullOutputPath(soundInfo, BaseFileName, subIdx, outputDirectory),
                          snd.lengthBytes) @@ [steps |-> subLog])
    /\ subIdx' = subIdx + 1
    /\ snd' = NoSound
    /\ soundInfo' = NoInfo
    /\ totalBytesRead' = 0
    /\ chunkCount' = 0
    /\ subLog' = << >>
    /\ pc' = "sub_loop"
    /\ UNCHANGED <<faults, scanVars, extVars, wavFile, outFiles, inputIsBank,
                   filesToProcess, tempFilesToDelete, fileIdx, numSubSounds,
                   outputDirectory, outDirs, exitCode, argv, logVars, callVars, session>>

\* ProcessSubSound returned or threw: an exception clears the flag; the handle
\* is released and the loop goes on to the next index.
MainAfterSub ==
    /\ pc \in {"sub_ret", "sub_threw"}
    /\ allSubSoundsProcessed' = IF pc = "sub_threw" THEN FALSE ELSE allSubSoundsProcessed
    /\ held' = held - 1
    /\ mainLog' = Append(mainLog,
                    Event("processed", fileIdx, subIdx, pc = "sub_ret",
                          pc = "sub_threw" \/ WriteFailed(subLog),
                          FullOutputPath(soundInfo, BaseFileName, subIdx, outputDirectory),
                          snd.lengthBytes) @@ [steps |-> subLog])
    /\ subIdx' = subIdx + 1
    /\ snd' = NoSound
    /\ soundInfo' = NoInfo
    /\ totalBytesRead' = 0
    /\ chunkCount' = 0
    /\ subLog' = << >>
    /\ pc' = "sub_loop"
    /\ UNCHANGED <<faults, scanVars, extVars, wavFile, outFiles, inputIsBank,
                   filesToProcess, tempFilesToDelete, fileIdx, numSubSounds,
                   outputDirectory, outDirs, exitCode, argv, logVars, callVars, session>>

\* The loop over the sub-sounds has ended: the next container.
MainContainerDone ==
    /\ pc = "sub_loop"
    /\ ~(subIdx < numSubSounds)
    /\ mainLog' = Append(mainLog,
                    Event("closed", fileIdx, numSubSounds, allSubSoundsProcessed, FALSE,
                          << >>, 0))
    /\ fileIdx' = fileIdx + 1
    /\ pc' = "main_loop"
    /\ UNCHANGED <<faults, scanVars, extVars, subVars, inputIsBank, filesToProcess,
                   tempFilesToDelete, numSubSounds, subIdx, allSubSoundsProcessed,
                   outputDirectory, outDirs, held, exitCode, argv, logVars, callVars, session>>

\* All containers are processed: the log is closed when it is open, the
\* temporary files are deleted and main returns 0.
MainEnd ==
    /\ pc = "main_loop"
    /\ ~(fileIdx <= Len(filesToProcess))
    /\ logFiles' = WriteLogMessage(logFiles, logFile, verboseLogEnabled,
                                   LogRecord(0, -1, "Processing finished"))
    /\ logFile' = [logFile EXCEPT !.open = FALSE]
    /\ tempDir' = [n \in {m \in DOMAIN tempDir :
                            \A k \in DOMAIN tempFilesToDelete : tempFilesToDelete[k] # m}
                   |-> tempDir[n]]
    /\ exitCode' = 0
    /\ pc' = "exit"
    /\ mainLog' = Append(mainLog, Event("end", 0, 0, TRUE, FALSE, << >>, 0))
    /\ UNCHANGED <<faults, scanVars, bank, reader, fsbCount, tempFsbFiles, extLog,
                   subVars, inputIsBank, filesToProcess, tempFilesToDelete, fileIdx,
                   numSubSounds, subIdx, allSubSoundsProcessed, outputDirectory,
                   outDirs, held, argv, verboseLogEnabled, callVars, session>>

NextMain ==
    \/ MainUsage
    \/ MainTry
    \/ MainEngineFail
    \/ MainParseReturn
    \/ MainParse
    \/ MainSelectBank
    \/ MainSelectFsb
    \/ MainAfterExtractEmpty
    \/ MainAfterExtract
    \/ MainOpenFail
    \/ MainOpenEmpty
    \/ MainOpen
    \/ MainGetSubSoundFail
    \/ MainGetSubSound
    \/ MainAfterSub
    \/ MainContainerDone
    \/ MainEnd

\* ------------------------------------------------------ generated bank files

\* A uint32_t as 4 little-endian bytes.
LE32(u) == <<u.lo % 256, u.lo \div 256, u.hi % 256, u.hi \div 256>>

\* The payload of a sub-container: n bytes, all 1, or starting with the
\* signature when sig is set.
Payload(n, sig) == [i \in 1..n |-> IF sig /\ i <= 4 THEN FSB5[i] ELSE 1]

\* The bytes of a sub-container with the given header fields.
SubContainer(shape) ==
    FSB5 \o LE32(U32(1)) \o LE32(U32(1)) \o LE32(U32(shape.shdr))
        \o LE32(U32(shape.name)) \o LE32(U32(shape.data))
        \o [i \in 1..(FSB_HEADER_SIZE - FSB_FIELDS_SIZE) |-> 0]
        \o Payload(shape.shdr + shape.name + shape.data, shape.sig)

\* The header fields the generated sub-containers carry.
SubShapes ==
    { [shdr |-> 0, name |-> 0, data |-> 0, sig |-> FALSE],
      [shdr |-> 1, name |-> 2, data |-> 0, sig |-> FALSE],
      [shdr |-> 0, name |-> 1, data |-> 4, sig |-> TRUE] }

\* The junk before and between sub-containers: nothing, a byte, the start of a
\* signature.
JunkSeqs == { << >>, <<0>>, <<70, 83>> }

\* How a generated bank file ends: with junk behind the last sub-container, or
\* cut short by some bytes (one, or enough to cut into a header).
Endings ==
    {<<tail, 0>> : tail \in JunkSeqs} \cup {<<<< >>, trunc>> : trunc \in {1, 40}}

\* The segments of a bank file: each is junk followed by a sub-container.
Layouts == UNION {[1..k -> JunkSeqs \X SubShapes] : k \in 0..MaxSubs}

RECURSIVE LayoutBytes(_)
LayoutBytes(layout) ==
    IF layout = << >> THEN << >>
    ELSE LayoutBytes(SubSeq(layout, 1, Len(layout) - 1))
            \o layout[Len(layout)][1] \o SubContainer(layout[Len(layout)][2])

\* The bytes of a generated bank file.
BankBytes(layout, tail, trunc) ==
    LET all == LayoutBytes(layout) \o tail
    IN  SubSeq(all, 1, IF trunc > Len(all) THEN 0 ELSE Len(all) - trunc)

\* std::ofstream logFile; before any open.
ClosedLog == [open |-> FALSE, fail |-> FALSE, path |-> << >>]

LogIdle ==
    /\ verboseLogEnabled = FALSE
    /\ logFile = ClosedLog
    /\ logFiles = EmptyDir

\* No function is called on its own.
NoCall == [op |-> "none"]

CallIdle ==
    /\ call = NoCall
    /\ ret = NoCall

\* What is kept of a run that has ended: its output files and directories,
\* its histories and its exit status; and the value before any run has ended.
RunResult == [outFiles |-> outFiles, outDirs |-> outDirs, mainLog |-> mainLog,
              extLog |-> extLog, exitCode |-> exitCode]
NoResult == [outFiles |-> EmptyDir, outDirs |-> {}, mainLog |-> << >>,
             extLog |-> << >>, exitCode |-> -1]

\* The first run of the program; a is the command line when a second run on
\* it is to follow, and empty otherwise.
FirstRun(a) == [run |-> 1, argv |-> a, first |-> NoResult]

SubIdle ==
    /\ snd = NoSound
    /\ soundInfo = NoInfo
    /\ wavFile = ClosedFile
    /\ outFiles = EmptyDir
    /\ totalBytesRead = 0
    /\ chunkCount = 0
    /\ subLog = << >>

MainIdle ==
    /\ inputIsBank = FALSE
    /\ filesToProcess = << >>
    /\ tempFilesToDelete = << >>
    /\ fileIdx = 1
    /\ numSubSounds = 0
    /\ subIdx = 0
    /\ allSubSoundsProcessed = TRUE
    /\ outputDirectory = << >>
    /\ outDirs = {}
    /\ held = 0
    /\ exitCode = -1
    /\ mainLog = << >>
    /\ argv = << >>
    /\ LogIdle
    /\ CallIdle
    /\ session = FirstRun(<< >>)

ScanIdle ==
    /\ startPos = 0
    /\ found = FALSE

ExtRestIdle ==
    /\ fsbCount = 0
    /\ tempFsbFiles = << >>
    /\ tempDir = EmptyDir
    /\ extLog = << >>

InitExtract ==
    /\ \E layout \in Layouts, ending \in Endings :
        bank = BankBytes(layout, ending[1], ending[2])
    /\ reader = OpenReader
    /\ ExtRestIdle
    /\ ScanIdle
    /\ faults = MaxFaults
    /\ SubIdle
    /\ MainIdle
    /\ pc = "ext_open"

NextExtract ==
    \/ ExtOpenFail
    \/ ExtOpen
    \/ ExtScan
    \/ ExtBodyNoCreate
    \/ ExtBodyThrow
    \/ ExtBodyOk
    \/ ExtBodyShortWrite

SpecExtract == InitExtract /\ [][NextExtract]_vars

\* ------------------------------- extraction over arbitrary header fields

\* The values the three size fields of a header are drawn from: small ones,
\* 2^31, 2^32 - 60 and 2^32 - 1.
WideFields ==
    { U32(0), U32(1), [hi |-> 32768, lo |-> 0], [hi |-> 65535, lo |-> 65476],
      [hi |-> 65535, lo |-> 65535] }

\* A bank file that is one FSB5 header with the given size fields.
HeaderOnlyBank(shdrSize, nameSize, dataSize) ==
    FSB5 \o LE32(U32(1)) \o LE32(U32(1)) \o LE32(shdrSize) \o LE32(nameSize)
        \o LE32(dataSize) \o [i \in 1..(FSB_HEADER_SIZE - FSB_FIELDS_SIZE) |-> 0]

InitExtractFields ==
    /\ \E shdrSize \in WideFields, nameSize \in WideFields, dataSize \in WideFields :
        bank = HeaderOnlyBank(shdrSize, nameSize, dataSize)
    /\ reader = OpenReader
    /\ ExtRestIdle
    /\ ScanIdle
    /\ faults = MaxFaults
    /\ SubIdle
    /\ MainIdle
    /\ pc = "ext_open"

SpecExtractFields == InitExtractFields /\ [][NextExtract]_vars

\* ------------------------------------------- ProcessSubSound on its own

\* The byte lengths of the sub-sounds processed on their own: short ones, and
\* ones around one and two chunks.
SubLengths ==
    (0..7) \cup ((CHUNK_SIZE - 1)..(CHUNK_SIZE + 4)) \cup {2 * CHUNK_SIZE + 2}

\* The formats and their sample widths.
FormatBits ==
    [PCM8 |-> 8, PCM16 |-> 16, PCM24 |-> 24, PCM32 |-> 32, PCMFLOAT |-> 32,
     BITSTREAM |-> 0]

\* The sub-sounds processed on their own.
SubStreams ==
    { [format |-> f, channels |-> 2, bits |-> FormatBits[f], freq10 |-> 441000,
       lengthBytes |-> len, name |-> << >>] :
        f \in DOMAIN FormatBits, len \in SubLengths }

InitSub ==
    /\ snd \in SubStreams
    /\ soundInfo = NoInfo
    /\ wavFile = ClosedFile
    /\ outFiles = EmptyDir
    /\ totalBytesRead = 0
    /\ chunkCount = 0
    /\ subLog = << >>
    /\ inputIsBank = FALSE
    /\ filesToProcess = <<FsbFileName>>
    /\ tempFilesToDelete = << >>
    /\ fileIdx = 1
    /\ numSubSounds = 1
    /\ subIdx = 0
    /\ allSubSoundsProcessed = TRUE
    /\ outputDirectory = Stem(FsbFileName)
    /\ outDirs = {Stem(FsbFileName)}
    /\ held = 1
    /\ exitCode = -1
    /\ mainLog = << >>
    /\ argv = << >>
    /\ LogIdle
    /\ CallIdle
    /\ session = FirstRun(<< >>)
    /\ bank = << >>
    /\ reader = OpenReader
    /\ ExtRestIdle
    /\ ScanIdle
    /\ faults \in 0..MaxFaults
    /\ pc = "sub_seek"

SpecSub == InitSub /\ [][NextSub]_vars

\* ------------------------------------------------------------ the whole run

\* The bank files main is run on: one without a signature, one with two
\* sub-containers behind junk.
MainBanks ==
    { BankBytes(<< >>, <<0>>, 0),
      BankBytes(<< <<<<0>>, [shdr |-> 0, name |-> 0, data |-> 0, sig |-> FALSE]>>,
                   <<<<70, 83>>, [shdr |-> 1, name |-> 2, data |-> 0, sig |-> FALSE]>> >>,
                << >>, 0) }

\* The most arguments after the program's name.
MaxArgs == 3

\* The command lines of at most n arguments, each the existing FSB or bank
\* file, a file that does not exist, an option, or a word that is no option.
ArgLists(n) ==
    UNION {[1..k -> {FsbFileName, BankFileName, <<"m", ".fsb">>, <<"-res">>,
                     <<"-exe">>, <<"-o">>, <<"-v">>, <<"-h">>, <<"-x">>}] : k \in 0..n}

Init ==
    /\ argv \in ArgLists(MaxArgs)
    /\ inputIsBank = FALSE
    /\ bank \in (IF Len(argv) > 0 /\ argv[1] = BankFileName THEN MainBanks ELSE {<< >>})
    /\ reader = OpenReader
    /\ ExtRestIdle
    /\ ScanIdle
    /\ SubIdle
    /\ filesToProcess = << >>
    /\ tempFilesToDelete = << >>
    /\ fileIdx = 1
    /\ numSubSounds = 0
    /\ subIdx = 0
    /\ allSubSoundsProcessed = TRUE
    /\ outputDirectory = << >>
    /\ outDirs = {}
    /\ held = 0
    /\ exitCode = -1
    /\ mainLog = << >>
    /\ LogIdle
    /\ CallIdle
    /\ session = FirstRun(<< >>)
    /\ faults = MaxFaults
    /\ pc = "main_args"

Next == NextMain \/ NextExtract \/ NextSub

Spec == Init /\ [][Next]_vars

\* ------------------------------------------------ the program run twice

\* The command lines the program is run twice on.
TwiceArgs ==
    { << >>, <<FsbFileName>>, <<BankFileName>>, <<FsbFileName, <<"-h">>>>,
      <<FsbFileName, <<"-x">>>> }

\* The bank files the program is run twice on: one sub-container behind a
\* byte of junk.
TwiceBanks ==
    { BankBytes(<< <<<<0>>, [shdr |-> 1, name |-> 2, data |-> 0, sig |-> FALSE]>> >>,
                << >>, 0) }

\* The program has exited and is started again on the same command line and
\* the same bank file: a new process, with a new engine, that finds the
\* temporary files, the output directories and files and the log files the
\* first run left.
MainAgain ==
    /\ pc = "exit"
    /\ session.run = 1
    /\ session' = [run |-> 2, argv |-> session.argv, first |-> RunResult]
    /\ argv' = session.argv
    /\ faults' = MaxFaults
    /\ reader' = OpenReader
    /\ startPos' = 0
    /\ found' = FALSE
    /\ fsbCount' = 0
    /\ tempFsbFiles' = << >>
    /\ extLog' = << >>
    /\ snd' = NoSound
    /\ soundInfo' = NoInfo
    /\ wavFile' = ClosedFile
    /\ totalBytesRead' = 0
    /\ chunkCount' = 0
    /\ subLog' = << >>
    /\ inputIsBank' = FALSE
    /\ filesToProcess' = << >>
    /\ tempFilesToDelete' = << >>
    /\ fileIdx' = 1
    /\ numSubSounds' = 0
    /\ subIdx' = 0
    /\ allSubSoundsProcessed' = TRUE
    /\ outputDirectory' = << >>
    /\ held' = 0
    /\ exitCode' = -1
    /\ mainLog' = << >>
    /\ verboseLogEnabled' = FALSE
    /\ logFile' = ClosedLog
    /\ pc' = "main_args"
    /\ UNCHANGED <<bank, tempDir, outFiles, outDirs, logFiles, callVars>>

InitTwice ==
    /\ argv \in TwiceArgs
    /\ inputIsBank = FALSE
    /\ bank \in (IF Len(argv) > 0 /\ argv[1] = BankFileName THEN TwiceBanks ELSE {<< >>})
    /\ reader = OpenReader
    /\ ExtRestIdle
    /\ ScanIdle
    /\ SubIdle
    /\ filesToProcess = << >>
    /\ tempFilesToDelete = << >>
    /\ fileIdx = 1
    /\ numSubSounds = 0
    /\ subIdx = 0
    /\ allSubSoundsProcessed = TRUE
    /\ outputDirectory = << >>
    /\ outDirs = {}
    /\ held = 0
    /\ exitCode = -1
    /\ mainLog = << >>
    /\ LogIdle
    /\ CallIdle
    /\ session = FirstRun(argv)
    /\ faults = MaxFaults
    /\ pc = "main_args"

\* Whether the run so far went as the first run did: the histories of the
\* extraction, of main and of the current ProcessSubSound call are beginnings
\* of the first run's, and main, once it has returned, returned the same.
Replays ==
    LET IsPrefix(a, b) == Len(a) <= Len(b) /\ a = SubSeq(b, 1, Len(a))
        before == session.first
    IN  /\ IsPrefix(extLog, before.extLog)
        /\ IsPrefix(mainLog, before.mainLog)
        /\ pc \in {"sub_seek", "sub_info", "sub_open", "sub_header", "sub_data",
                   "sub_ret", "sub_threw"}
            => /\ Len(mainLog) < Len(before.mainLog)
               /\ before.mainLog[Len(mainLog) + 1].ev = "processed"
               /\ IsPrefix(subLog, before.mainLog[Len(mainLog) + 1].steps)
        /\ pc = "exit"
            => /\ mainLog = before.mainLog
               /\ extLog = before.extLog
               /\ exitCode = before.exitCode

\* A step of the first run, and a step of the second run, in which the
\* extraction, the engine and the file system behave as in the first.
RunFirst == session.run = 1 /\ Next
RunSecond == session.run = 2 /\ Next /\ Replays'

NextTwice == RunFirst \/ MainAgain \/ RunSecond

SpecTwice == InitTwice /\ [][NextTwice]_vars

\* ----------------------------------- WriteWAVHeader and GetSoundInfo alone

\* The calls of WriteWAVHeader: on a stream that is not open or open and
\* good, which accepts the writes or not; with usual sample rates and large
\* ints a frequency stored in a container converts to (2147483520 is the
\* largest float below 2^31), the channel counts and sample widths of
\* getFormat, and byte lengths (unsigned int) that are small or around
\* 2^32 - 37.
HeaderCalls ==
    { [op |-> "WriteWAVHeader", file |-> f, accepts |-> a, sampleRate |-> sr,
       channels |-> ch, dataSize |-> ds, bitsPerSample |-> b, format |-> fmt] :
        f \in {ClosedFile, [open |-> TRUE, bad |-> FALSE, path |-> <<"s", ".wav">>]},
        a \in BOOLEAN,
        sr \in {8000, 44100, 33554432, 2147483520},
        ch \in {1, 2, 32},
        ds \in {U32(0), U32(176400), [hi |-> 65535, lo |-> 65499],
                [hi |-> 65535, lo |-> 65500], [hi |-> 65535, lo |-> 65535]},
        b \in {8, 16, 24, 32},
        fmt \in {"PCM16", "PCMFLOAT"} }

\* The calls of GetSoundInfo: the default frequency of getDefaults, in tenths
\* of a Hz, is negative, zero, below 1 Hz, whole or fractional.
InfoCalls ==
    { [op |-> "GetSoundInfo",
       sound |-> [format |-> f, channels |-> 2, bits |-> FormatBits[f], freq10 |-> q,
                  lengthBytes |-> 8, name |-> << >>]] :
        f \in DOMAIN FormatBits,
        q \in {-10, 0, 4, 6, 10, 440996, 441000, 480004, 480005} }

\* The longest name SanitizeFileName is called with.
MaxNameLen == 3

\* The calls of SanitizeFileName: names of at most n characters, each an
\* unsafe character, a letter, or a byte of a replacement string.
NameCalls(n) ==
    { [op |-> "SanitizeFileName", fileName |-> name] :
        name \in UNION {[1..k -> DOMAIN CharMap \cup {"a", "xC5"}] : k \in 0..n} }

InitCall ==
    /\ call \in HeaderCalls \cup InfoCalls \cup NameCalls(MaxNameLen)
    /\ ret = NoCall
    /\ pc = "call"
    /\ session = FirstRun(<< >>)
    /\ bank = << >>
    /\ reader = OpenReader
    /\ ScanIdle
    /\ ExtRestIdle
    /\ SubIdle
    /\ inputIsBank = FALSE
    /\ filesToProcess = << >>
    /\ tempFilesToDelete = << >>
    /\ fileIdx = 1
    /\ numSubSounds = 0
    /\ subIdx = 0
    /\ allSubSoundsProcessed = TRUE
    /\ outputDirectory = << >>
    /\ outDirs = {}
    /\ held = 0
    /\ exitCode = -1
    /\ mainLog = << >>
    /\ argv = << >>
    /\ LogIdle
    /\ faults = 0

\* One call of WriteWAVHeader.
CallWriteWAVHeader ==
    /\ pc = "call"
    /\ call.op = "WriteWAVHeader"
    /\ ret' = [op |-> "WriteWAVHeader",
               res |-> WriteWAVHeader(call.file, call.accepts, call.sampleRate,
                                      call.channels, call.dataSize,
                                      call.bitsPerSample, call.format)]
    /\ pc' = "returned"
    /\ UNCHANGED <<faults, scanVars, extVars, subVars, mainVars, argv, logVars, call, session>>

\* One call of GetSoundInfo in which no fatal query fails.
CallGetSoundInfo ==
    /\ pc = "call"
    /\ call.op = "GetSoundInfo"
    /\ ret' = [op |-> "GetSoundInfo", info |-> GetSoundInfo(call.sound)]
    /\ pc' = "returned"
    /\ UNCHANGED <<faults, scanVars, extVars, subVars, mainVars, argv, logVars, call, session>>

\* One call of SanitizeFileName.
CallSanitizeFileName ==
    /\ pc = "call"
    /\ call.op = "SanitizeFileName"
    /\ ret' = [op |-> "SanitizeFileName", name |-> SanitizeFileName(call.fileName)]
    /\ pc' = "returned"
    /\ UNCHANGED <<faults, scanVars, extVars, subVars, mainVars, argv, logVars, call, session>>

NextCall == CallWriteWAVHeader \/ CallGetSoundInfo \/ CallSanitizeFileName

SpecCall == InitCall /\ [][NextCall]_vars

\* ------------------------------------------------- the scanner on its own

\* All byte streams of at most n bytes over ScanBytes.
ScanInputs(n) == UNION {[1..k -> ScanBytes] : k \in 0..n}

InitScan ==
    /\ bank \in ScanInputs(MaxScanLen)
    /\ startPos \in 0..Len(bank)
    /\ reader = [OpenReader EXCEPT !.pos = startPos]
    /\ found = FALSE
    /\ pc = "scan_call"
    /\ ExtRestIdle
    /\ SubIdle
    /\ MainIdle
    /\ faults = 0

\* One call of FindFSB5Signature on a good stream positioned at startPos.
ScanCall ==
    /\ pc = "scan_call"
    /\ LET res == FindFSB5Signature(reader, bank) IN
        /\ found' = res.found
        /\ reader' = res.r
    /\ pc' = "scan_ret"
    /\ UNCHANGED <<faults, bank, startPos, extRest, subVars, mainVars, argv, logVars, callVars, session>>

NextScan == ScanCall

SpecScan == InitScan /\ [][NextScan]_vars

\* The offsets at or after p at which the signature occurs in data.
SigOffsets(data, p) ==
    {i \in p..(Len(data) - 4) : SubSeq(data, i + 1, i + 4) = FSB5}

\* The least element of a non-empty set of integers.
MinOf(S) == CHOOSE x \in S : \A y \in S : x <= y

\* C9: when the signature occurs at or after the starting position, the scanner
\* reports success and leaves the stream, in a good state, at the first byte of
\* the first such occurrence, whatever its alignment.
C9_ScanSuccess ==
    (pc = "scan_ret" /\ SigOffsets(bank, startPos) # {})
        => /\ found
           /\ Good(reader)
           /\ Tellg(reader) = MinOf(SigOffsets(bank, startPos))

\* C9 witness: a signature found at an offset that is no multiple of 4 from the
\* start, behind a partial match.
C9_Witness ==
    /\ pc = "scan_ret"
    /\ found
    /\ startPos = 1
    /\ reader.pos = 2
    /\ bank[2] = 70

\* C10: when the signature does not occur at or after the starting position,
\* the scanner reports failure and leaves the stream as it found it, at p.
C10_ScanFailureRestores ==
    (pc = "scan_ret" /\ SigOffsets(bank, startPos) = {})
        => /\ ~found
           /\ reader = [OpenReader EXCEPT !.pos = startPos]
           /\ Tellg(reader) = startPos

\* ------------------------------------------------ claims on the extraction

\* Header field k (0: shdrSize, 1: nameSize, 2: dataSize) of the sub-container
\* whose signature is at offset o of data.
HeaderField(data, o, k) ==
    DecodeLE32(SubSeq(data, o + 12 + 4 * k + 1, o + 12 + 4 * k + 4))

\* 0x3C + streamHeaderSize + nameTableSize + dataSize of the sub-container at
\* offset o, for fields below 2^16.
DeclaredSize(data, o) ==
    FSB_HEADER_SIZE + HeaderField(data, o, 0).lo + HeaderField(data, o, 1).lo
        + HeaderField(data, o, 2).lo

\* The two signatures at o1 < o2 each start a sub-container that is whole: the
\* first ends at or before the second, the second at or before the end of the
\* file.
TwoWholeSubContainers(data, o1, o2) ==
    /\ o1 < o2
    /\ o2 + FSB_FIELDS_SIZE <= Len(data)
    /\ \A o \in {o1, o2} : \A k \in 0..2 : HeaderField(data, o, k).hi = 0
    /\ o1 + DeclaredSize(data, o1) <= o2
    /\ o2 + DeclaredSize(data, o2) <= Len(data)

\* The names "<stem>.fsb" and "<stem>_2.fsb" of the bank file "s.bank".
FirstFsbName == <<"s", ".fsb">>
SecondFsbName == <<"s", "_", "2", ".fsb">>

\* C7: when the bank file holds exactly two signatures, each starting a whole
\* sub-container, with junk before and between them, and nothing fails,
\* ExtractFSBsFromBankFile returns exactly "<stem>.fsb" and "<stem>_2.fsb" in
\* offset order, the i-th holding exactly the 0x3C + shdrSize + nameSize +
\* dataSize bytes from the i-th signature on, sized by that signature's header.
C7_TwoSubContainers ==
    (pc = "ext_ret" /\ faults = MaxFaults) =>
        LET sigs == SigOffsets(bank, 0) IN
        Cardinality(sigs) = 2 =>
            LET o1 == MinOf(sigs)
                o2 == MinOf(sigs \ {o1})
            IN  TwoWholeSubContainers(bank, o1, o2)
                => /\ tempFsbFiles = <<FirstFsbName, SecondFsbName>>
                   /\ DOMAIN tempDir = {FirstFsbName, SecondFsbName}
                   /\ tempDir[FirstFsbName] =
                        FileContent(SubSeq(bank, o1 + 1, o1 + DeclaredSize(bank, o1)),
                                    U32(0))
                   /\ tempDir[SecondFsbName] =
                        FileContent(SubSeq(bank, o2 + 1, o2 + DeclaredSize(bank, o2)),
                                    U32(0))

\* C7 witness: extraction has returned for a bank file with junk before the
\* first and between the two sub-containers, whose headers give different
\* sizes, and two files were written.
C7_Witness ==
    /\ pc = "ext_ret"
    /\ faults = MaxFaults
    /\ Len(tempFsbFiles) = 2
    /\ LET sigs == SigOffsets(bank, 0) IN
        /\ Cardinality(sigs) = 2
        /\ LET o1 == MinOf(sigs)
               o2 == MinOf(sigs \ {o1})
           IN  /\ o1 > 0
               /\ TwoWholeSubContainers(bank, o1, o2)
               /\ o1 + DeclaredSize(bank, o1) < o2
               /\ DeclaredSize(bank, o1) # DeclaredSize(bank, o2)

\* C8: when materializing a sub-container fails (the file cannot be created,
\* the read from the bank file or the write to the file is short), its path is
\* not in the returned list and no file of that name is left on disk.
C8_FailedSubContainerAbandoned ==
    pc = "ext_ret" =>
        \A k \in DOMAIN extLog :
            extLog[k].outcome \in {"nocreate", "shortread", "shortwrite"}
                => /\ \A j \in DOMAIN tempFsbFiles : tempFsbFiles[j] # extLog[k].name
                   /\ extLog[k].name \notin DOMAIN tempDir

\* ----------------------------------------------- claims on ProcessSubSound

\* The output file of the sub-sound being processed.
CurrentOutput ==
    outFiles[FullOutputPath(soundInfo, BaseFileName, subIdx, outputDirectory)]

\* C1: when ProcessSubSound has returned with success and every write went
\* through, the data size in the output file's header is the number of sample
\* bytes written after it, in every format.
C1_HeaderDataSizeIsWritten ==
    (pc = "sub_ret" /\ ~WriteFailed(subLog))
        => CurrentOutput.hdr.dataSize = U32(Len(CurrentOutput.data))

\* The first n bytes of the engine's byte sequence for sound.
EngineBytes(sound, n) == [j \in 1..n |-> EngineByte(sound, j - 1)]

\* C3: for a 24-bit stream whose byte length L is no multiple of 3, the data
\* written are the first floor(L/3)*3 bytes of the engine's byte sequence: the
\* complete samples in order and nothing of the trailing partial one.
C3_PCM24WholeSamples ==
    (/\ pc = "sub_ret"
     /\ ~WriteFailed(subLog)
     /\ soundInfo.format = "PCM24"
     /\ snd.lengthBytes % 3 # 0)
        => CurrentOutput.data = EngineBytes(snd, (snd.lengthBytes \div 3) * 3)

\* -------------------------------------------------- claims on the whole run

\* The entries of mainLog about container f with event ev.
EventsOf(f, ev) ==
    {k \in DOMAIN mainLog : mainLog[k].file = f /\ mainLog[k].ev = ev}

\* The output files in directory dir.
FilesIn(dir) == {path \in DOMAIN outFiles : path[1] = dir}

\* C2: in a run in which nothing fails, a container with K sub-sounds leaves
\* exactly K distinct files in its output directory, whatever the sub-sounds'
\* names, and each file's header carries the byte length of its sub-sound.
C2_OneFilePerStream ==
    (pc = "exit" /\ faults = MaxFaults) =>
        \A f \in DOMAIN filesToProcess :
            \A k \in EventsOf(f, "closed") :
                /\ Cardinality(FilesIn(Stem(filesToProcess[f]))) = mainLog[k].sub
                /\ \A j \in EventsOf(f, "processed") :
                    outFiles[mainLog[j].path].hdr.dataSize = U32(mainLog[j].len)

\* C4: when the process exits, no temporary file that the extraction created
\* is left, whichever way the run ended.
C4_TempFilesDeleted ==
    pc = "exit" => DOMAIN tempDir = {}

\* C5: when the run has ended, every container of the list was opened (or its
\* opening was attempted), also those behind a container that createSound or
\* getNumSubSounds failed for.
C5_OpenFailureIsLocal ==
    pc = "exit" =>
        \A f \in DOMAIN filesToProcess : EventsOf(f, "open") # {}

\* C6: when the loop over a container's K sub-sounds has ended, every index
\* 0..K-1 was attempted, and the container is marked as partially failed if
\* anything failed for one of its sub-sounds.
C6_StreamFailureMarksContainer ==
    \A f \in DOMAIN filesToProcess :
        \A k \in EventsOf(f, "closed") :
            /\ \A i \in 0..(mainLog[k].sub - 1) :
                \E j \in EventsOf(f, "getSubSound") : mainLog[j].sub = i
            /\ (\E j \in EventsOf(f, "getSubSound") \cup EventsOf(f, "processed") :
                    mainLog[j].fault)
                => ~mainLog[k].ok

\* ------------------------------------------- claims on the computed length

\* A number below 2^48 as three 16-bit limbs; a uint32_t has top = 0.
Wide(u) == [top |-> 0, hi |-> u.hi, lo |-> u.lo]

\* 0x3C + shdrSize + nameSize + dataSize as a number, without wrap-around.
ExactSize(shdrSize, nameSize, dataSize) ==
    LET lo == FSB_HEADER_SIZE + shdrSize.lo + nameSize.lo + dataSize.lo
        hi == shdrSize.hi + nameSize.hi + dataSize.hi + (lo \div 65536)
    IN  [top |-> hi \div 65536, hi |-> hi % 65536, lo |-> lo % 65536]

\* C11: the length computed for a sub-container whose header was read is the
\* number 0x3C + shdrSize + nameSize + dataSize, also when that number is
\* above 2^32 - 1.
C11_LengthIsExactSum ==
    \A k \in DOMAIN extLog :
        (extLog[k].outcome # "nocreate"
         /\ extLog[k].sig + FSB_FIELDS_SIZE <= Len(bank))
            => Wide(extLog[k].size) =
                    ExactSize(HeaderField(bank, extLog[k].sig, 0),
                              HeaderField(bank, extLog[k].sig, 1),
                              HeaderField(bank, extLog[k].sig, 2))

\* ------------------------------------------- claims on failure handling

\* The entries of subLog that record a failed engine read or a failed write
\* of sample data.
TranscriptionFailures == {"readData failed", "chunk write failed"}

\* C12: once an engine read or a write of sample data has failed, the
\* transcriber issues no further chunk for the stream and ProcessSubSound does
\* not report success.
C12_FailureStopsTranscription ==
    \A k \in DOMAIN subLog :
        subLog[k] \in TranscriptionFailures
            => \A j \in (k + 1)..Len(subLog) :
                subLog[j] \notin {"chunk", "short chunk", "empty chunk",
                                 "chunk write failed", "success"}

\* Whether a float lies in [-1.0, 1.0].
InUnitRange(x) == ~x.nan /\ -1 <= x.v /\ x.v <= 1

\* What the range limit makes of an engine value: 1.0 above the range, -1.0
\* below it, the value itself inside.
Limited(x) == IF x.v > 1 THEN Float(1) ELSE IF x.v < -1 THEN Float(-1) ELSE x

\* C14: every complete 4-byte sample written for a PCMFLOAT stream lies in
\* [-1.0, 1.0] and is the engine's value limited to that range.
C14_FloatSamplesInRange ==
    snd.format = "PCMFLOAT"
        => \A p \in DOMAIN outFiles :
            LET data == outFiles[p].data IN
            \A j \in 1..(4 * (Len(data) \div 4)) :
                /\ InUnitRange(data[j][2])
                /\ data[j][2] = Limited(EngineByte(snd, data[j][1])[2])

\* ------------------------------------ claims on WriteWAVHeader, GetSoundInfo

\* C13: WriteWAVHeader returns true only when the header has been written:
\* it returns false when the stream is not open and when the stream does not
\* accept the header bytes.
C13_HeaderFailureReported ==
    (ret.op = "WriteWAVHeader" /\ ret.res.ok)
        => (/\ call.file.open
            /\ call.accepts
            /\ ~ret.res.file.bad
            /\ ret.res.hdr # NoHeader)

\* C15: the byte-rate field of a written header is
\* sampleRate * channels * bitsPerSample / 8, the division applied once to the
\* full product.
C15_ByteRateExact ==
    (ret.op = "WriteWAVHeader" /\ ret.res.hdr # NoHeader)
        => Wide(ret.res.hdr.byteRate)
               = ByteRate64(call.sampleRate, call.channels, call.bitsPerSample)

\* 36 + u for a uint32_t u, as a number (top above bit 31).
Plus36(u) ==
    LET lo == u.lo + 36
        hi == u.hi + (lo \div 65536)
    IN  [top |-> hi \div 65536, hi |-> hi % 65536, lo |-> lo % 65536]

\* C16: the total-size field of a written header is 36 plus the value of its
\* data-size field, for every unsigned 32-bit data size.
C16_TotalSizeIs36PlusData ==
    (ret.op = "WriteWAVHeader" /\ ret.res.hdr # NoHeader)
        => Wide(ret.res.hdr.riffSize) = Plus36(ret.res.hdr.dataSize)

\* A positive frequency in tenths of a Hz rounded to the nearest integer Hz.
RoundHz(freq10) == (freq10 + 5) \div 10

\* C17: the sample rate GetSoundInfo returns is the default frequency rounded
\* to the nearest Hz when that frequency is positive, and 44100 otherwise.
C17_SampleRateRounded ==
    ret.op = "GetSoundInfo"
        => ret.info.sampleRate =
               (IF call.sound.freq10 > 0 THEN RoundHz(call.sound.freq10)
                ELSE DEFAULT_SAMPLE_RATE)

\* ------------------------------------- claims on empty containers, the log
\* ------------------------------------- and the exit status

\* Whether the run met an exception that reached main's catch block.
ExceptionCaught ==
    \E k \in DOMAIN mainLog : mainLog[k].ev \in {"engine", "open"} /\ mainLog[k].fault

\* C18: a container with no sub-sound gets the "no sub-sounds" message and is
\* no error; none of its sub-sounds is asked for or processed, no output file
\* and no output directory is made for it, the containers after it are still
\* opened, and the run ends with status 0 unless an exception ends it.
C18_ZeroStreams ==
    \A k \in DOMAIN mainLog :
        mainLog[k].ev = "no sub-sounds" =>
            LET f == mainLog[k].file IN
            /\ mainLog[k].ok /\ ~mainLog[k].fault
            /\ EventsOf(f, "getSubSound") = {}
            /\ EventsOf(f, "processed") = {}
            /\ EventsOf(f, "closed") = {}
            /\ Stem(filesToProcess[f]) \notin outDirs
            /\ FilesIn(Stem(filesToProcess[f])) = {}
            /\ (pc = "exit" /\ f < Len(filesToProcess)) => EventsOf(f + 1, "open") # {}
            /\ (pc = "exit" /\ ~ExceptionCaught) => exitCode = 0

\* A run over a bank whose first sub-container holds no sub-sound and whose
\* second one was processed, ended with status 0.
C18_Witness ==
    /\ pc = "exit"
    /\ exitCode = 0
    /\ Len(filesToProcess) = 2
    /\ EventsOf(1, "no sub-sounds") # {}
    /\ EventsOf(2, "processed") # {}

\* The log records about sub-sound sub of container f in log file path.
RecordsOf(path, f, sub) ==
    {j \in DOMAIN logFiles[path] :
        logFiles[path][j].file = f /\ logFiles[path][j].sub = sub}

\* C19: in a run with logging enabled in which nothing fails, every processed
\* container with at least one sub-sound has its log file "_<stem>.log" in its
\* output directory, and that file holds records of each of its sub-sounds.
C19_LogFilePerContainer ==
    (pc = "exit" /\ verboseLogEnabled /\ faults = MaxFaults) =>
        \A f \in DOMAIN filesToProcess :
            \A k \in EventsOf(f, "closed") :
                LET path == LogFilePath(Stem(filesToProcess[f]), filesToProcess[f]) IN
                /\ path \in DOMAIN logFiles
                /\ \A sub \in 0..(mainLog[k].sub - 1) : RecordsOf(path, f, sub) # {}

\* Whether argument i of command line a is the path that follows "-o".
RECURSIVE IsOutputPath(_, _)
IsOutputPath(a, i) == i >= 3 /\ a[i - 1] = <<"-o">> /\ ~IsOutputPath(a, i - 1)

\* The arguments after the input path that stand as options.
OptionsOf(a) == {i \in 2..Len(a) : ~IsOutputPath(a, i)}

\* The usage errors: no input, an unknown option, -o without a path, more than
\* one output-location flag, help together with other arguments.
UsageError(a) ==
    \/ Len(a) = 0
    \/ \E i \in OptionsOf(a) :
            a[i] \notin OutputOptions \cup HelpOptions \cup {<<"-v">>}
    \/ \E i \in OptionsOf(a) : a[i] = <<"-o">> /\ i = Len(a)
    \/ Cardinality({i \in OptionsOf(a) : a[i] \in OutputOptions}) > 1
    \/ Len(a) > 1 /\ \E i \in 1..Len(a) : a[i] \in HelpOptions

\* C20: a command line that is a usage error never gets past main's argument
\* handling, and main returns 1 for it; main returns 1 when an exception
\* reached its catch block; and it returns 0 when the run reached the end of
\* processing, whatever failed in its sub-sounds.
C20_ExitStatus ==
    [][/\ (UsageError(argv) /\ pc \in {"main_args", "main_engine"})
            => (/\ pc' \in {"main_engine", "exit"}
                /\ pc' = "exit" => exitCode' = 1)
       /\ (pc # "exit" /\ pc' = "exit")
            => (/\ ExceptionCaught' => exitCode' = 1
                /\ mainLog'[Len(mainLog')].ev = "end" => exitCode' = 0)]_vars

\* A run that reached the end of processing although a sub-sound failed.
C20_Witness ==
    /\ pc = "exit"
    /\ exitCode = 0
    /\ mainLog[Len(mainLog)].ev = "end"
    /\ \E k \in DOMAIN mainLog : mainLog[k].ev = "processed" /\ ~mainLog[k].ok

\* ------------------------------------------- claims on SanitizeFileName

\* C22: the result of SanitizeFileName is the input with every unsafe
\* character replaced by its substitute string and every other character kept
\* in place: it holds no unsafe character and is no shorter than the input.
C22_SanitizeReplacesAll ==
    ret.op = "SanitizeFileName" =>
        LET RECURSIVE Substituted(_)
            Substituted(name) ==
                IF name = << >> THEN << >>
                ELSE (IF name[1] \in DOMAIN CharMap THEN CharMap[name[1]]
                      ELSE <<name[1]>>) \o Substituted(Tail(name))
        IN  /\ ret.name = Substituted(call.fileName)
            /\ \A j \in DOMAIN ret.name : ret.name[j] \notin DOMAIN CharMap
            /\ Len(ret.name) >= Len(call.fileName)

\* SanitizeFileName has returned for a name with two unsafe characters around
\* a letter.
C22_Witness ==
    /\ ret.op = "SanitizeFileName"
    /\ call.fileName = <<":", "a", "*">>
    /\ ret.name = CharMap[":"] \o <<"a">> \o CharMap["*"]

\* ------------------------------------ claims on the files ProcessSubSound leaves

\* The failures ProcessSubSound meets before it opens its output file.
FatalBeforeOpen ==
    {"seekData failed", "getFormat failed", "getDefaults failed",
     "getLength (bytes) failed", "getLength (ms) failed"}

\* C30: while ProcessSubSound is at seekData or inside GetSoundInfo no step,
\* the failure of seekData or of a fatal metadata query included, creates,
\* empties or changes an output file, and no output stream is open after it.
C30_NoFileBeforeInfo ==
    [][(pc = "sub_seek" \/ pc = "sub_info") =>
            (outFiles' = outFiles /\ ~wavFile'.open
             /\ pc' \in {"sub_info", "sub_open", "sub_threw"})]_vars

\* ProcessSubSound has thrown at seekData or at a metadata query of a
\* sub-sound whose output file exists, written for the sub-sound before it,
\* and the file still holds its data.
C30_Witness ==
    /\ pc = "sub_threw"
    /\ subLog /= << >>
    /\ subLog[Len(subLog)] \in FatalBeforeOpen
    /\ subIdx = 1
    /\ LET path == FullOutputPath(GetSoundInfo(snd), BaseFileName, subIdx,
                                  outputDirectory)
       IN  path \in DOMAIN outFiles /\ outFiles[path].data /= << >>

\* --------------------------------------------- claims on sub-sound handles

\* The positions of a run inside ProcessSubSound.
InProcessSubSound ==
    pc \in {"sub_seek", "sub_info", "sub_open", "sub_header", "sub_data",
            "sub_ret", "sub_threw"}

\* C24: at most one sub-sound handle is held, and one is held exactly from
\* getSubSound to the release after ProcessSubSound; when ProcessSubSound has
\* returned or thrown its output file is closed; when the loop is back at its
\* head, or the run has ended, every handle obtained has been released once:
\* the releases are as many as the successful getSubSound calls.
C24_HandleReleasedOnce ==
    /\ held \in {0, 1}
    /\ (held = 1) <=> InProcessSubSound
    /\ pc \in {"sub_ret", "sub_threw"} => ~wavFile.open
    /\ LET got == {k \in DOMAIN mainLog :
                        mainLog[k].ev = "getSubSound" /\ mainLog[k].ok}
           released == {k \in DOMAIN mainLog : mainLog[k].ev = "processed"}
       IN  Cardinality(got) = Cardinality(released) + held

\* The loop is at its head with no handle held after one ProcessSubSound that
\* threw and one that returned.
C24_Witness ==
    /\ pc = "sub_loop"
    /\ held = 0
    /\ \E k, l \in DOMAIN mainLog :
        /\ mainLog[k].ev = "processed" /\ ~mainLog[k].ok
        /\ mainLog[l].ev = "processed" /\ mainLog[l].ok

\* ------------------------------------------------ claims on the chunk loops

\* The formats WriteAudioDataChunk transcribes.
RawFormats == {"PCM8", "PCM16", "PCM32", "BITSTREAM"}

\* C25: in every iteration of a transcriber's loop the bytes asked of the
\* engine are more than 0, at most CHUNK_SIZE and at most what is missing from
\* the declared total, the bytes counted are at most the bytes asked for, the
\* chunk is in the output file, when the stream takes it, before the next
\* iteration (formats written byte for byte), and the running total never
\* exceeds the declared total.
C25_ChunksBounded ==
    [][(pc = "sub_data" /\ chunkCount' = chunkCount + 1 /\ pc' = "sub_data") =>
        LET total == soundInfo.soundLengthBytes
            bytesToRead == BytesToRead(total, totalBytesRead)
            file == outFiles'[FullOutputPath(soundInfo, BaseFileName, subIdx,
                                             outputDirectory)]
        IN  /\ 0 < bytesToRead
            /\ bytesToRead <= CHUNK_SIZE
            /\ bytesToRead <= total - totalBytesRead
            /\ totalBytesRead' - totalBytesRead \in 0..bytesToRead
            /\ totalBytesRead' <= total
            /\ (soundInfo.format \in RawFormats /\ ~WriteFailed(subLog'))
                    => Len(file.data) = totalBytesRead']_vars

\* The third chunk of a sound of two chunks and two bytes is about to be read.
C25_Witness ==
    /\ pc = "sub_data"
    /\ chunkCount = 2
    /\ totalBytesRead = 2 * CHUNK_SIZE
    /\ soundInfo.soundLengthBytes = 2 * CHUNK_SIZE + 2

\* C26: for 8-, 16- and 32-bit PCM and for the fallback format, as long as the
\* output stream takes the writes, the sample data in the output file are the
\* bytes the engine has delivered so far, in order and unchanged; when
\* ProcessSubSound returns they are all the bytes of the sound.
C26_RawPassThrough ==
    (/\ pc \in {"sub_data", "sub_ret"}
     /\ soundInfo.format \in RawFormats
     /\ ~WriteFailed(subLog))
        => /\ CurrentOutput.data = EngineBytes(snd, totalBytesRead)
           /\ pc = "sub_ret" => totalBytesRead = snd.lengthBytes

\* ProcessSubSound has returned for a 16-bit sound of more than one chunk, one
\* of which the engine delivered in part.
C26_Witness ==
    /\ pc = "sub_ret"
    /\ soundInfo.format = "PCM16"
    /\ snd.lengthBytes > CHUNK_SIZE
    /\ \E k \in DOMAIN subLog : subLog[k] = "short chunk"
    /\ Len(CurrentOutput.data) = snd.lengthBytes

\* C28: every iteration of a transcriber's loop that does not leave the loop
\* brings the running total closer to the declared total, so that the loop
\* ends after finitely many iterations whatever the engine delivers.
C28_ChunkLoopProgresses ==
    [][(pc = "sub_data" /\ pc' = "sub_data")
            => totalBytesRead' > totalBytesRead]_vars

\* ---------------------------------------------- claims on the scan loop

\* C27: every iteration of the scan loop leaves the cursor beyond the
\* signature it handled, so that the signatures the loop finds lie at strictly
\* increasing offsets and none is found twice, whatever becomes of the
\* temporary file.
C27_NoSignatureTwice ==
    \A j, k \in DOMAIN extLog : j < k => extLog[j].sig < extLog[k].sig

\* The iterations whose file is in the list ExtractFSBsFromBankFile returns.
Extracted ==
    LET Listed(e) == e.outcome \in {"ok", "shortread", "shortwrite"}
    IN  SelectSeq(extLog, Listed)

\* C29: of two extracted sub-containers the later one starts at or behind the
\* end, offset + length, of the earlier one and at a greater offset: the byte
\* ranges are disjoint and strictly increasing.
C29_RangesDisjoint ==
    \A j, k \in DOMAIN Extracted :
        j < k => /\ Fits(Extracted[j].size)
                 /\ Extracted[j].sig + NatOf(Extracted[j].size) <= Extracted[k].sig
                 /\ Extracted[j].sig < Extracted[k].sig

\* C23: the extracted files are listed in the order of their signatures'
\* offsets; the container main opens as its f-th is the f-th of that list, and
\* the containers are handled one after the other; within a container the
\* n-th getSubSound asks for index n - 1, and a sub-sound that was obtained is
\* processed to its end before getSubSound is called again.
C23_InOrder ==
    LET OfContainer(e) == e.file > 0
        events == SelectSeq(mainLog, OfContainer)
    IN  /\ tempFsbFiles = [k \in DOMAIN Extracted |-> Extracted[k].name]
        /\ \A j, k \in DOMAIN Extracted :
                j < k => Extracted[j].sig <= Extracted[k].sig
        /\ \A k \in DOMAIN events :
                /\ inputIsBank => filesToProcess[events[k].file] = tempFsbFiles[events[k].file]
                /\ \A j \in 1..(k - 1) : events[j].file <= events[k].file
                /\ events[k].ev = "getSubSound" =>
                    /\ events[k].sub =
                        Cardinality({j \in 1..(k - 1) :
                            /\ events[j].file = events[k].file
                            /\ events[j].ev = "getSubSound"})
                    /\ \A j \in 1..(k - 1) :
                        (/\ events[j].file = events[k].file
                         /\ events[j].ev = "getSubSound"
                         /\ events[j].ok)
                            => \E m \in (j + 1)..(k - 1) :
                                /\ events[m].ev = "processed"
                                /\ events[m].file = events[j].file
                                /\ events[m].sub = events[j].sub

\* A run on a bank file has ended after two extracted containers were
\* processed, the second with two sub-sounds.
C23_Witness ==
    /\ pc = "exit"
    /\ inputIsBank
    /\ Len(filesToProcess) = 2
    /\ Extracted[1].sig < Extracted[2].sig
    /\ \E k \in DOMAIN mainLog :
        mainLog[k].ev = "processed" /\ mainLog[k].file = 2 /\ mainLog[k].sub = 1

\* ------------------------------------------------ claims on a second run

\* Whether the second run went as the first: the extraction, the engine and
\* the file system behaved alike at every step and main returned the same.
SameBehaviour ==
    /\ mainLog = session.first.mainLog
    /\ extLog = session.first.extLog
    /\ exitCode = session.first.exitCode

\* C21: when a second run on the same command line and bank file, started
\* with the files the first run left, has ended after going as the first did,
\* the output files are those the first run left, each with the same bytes,
\* and so are the output directories.
C21_SecondRunSameOutput ==
    (pc = "exit" /\ session.run = 2 /\ SameBehaviour)
        => /\ DOMAIN outFiles = DOMAIN session.first.outFiles
           /\ \A path \in DOMAIN outFiles : outFiles[path] = session.first.outFiles[path]
           /\ outDirs = session.first.outDirs

\* A second run has ended as the first did, both having written an output
\* file with sample data.
C21_Witness ==
    /\ pc = "exit"
    /\ session.run = 2
    /\ SameBehaviour
    /\ \E path \in DOMAIN outFiles : outFiles[path].data /= << >>
    /\ \E k \in DOMAIN mainLog : mainLog[k].ev = "processed" /\ mainLog[k].ok

====
